---- MODULE Spec2Model ----
(***************************************************************************)
(* A model of lib/aws-common.js: the naming, ARN caching and idempotent    *)
(* provisioning layer over SNS topics and SQS queues.                      *)
(*                                                                         *)
(* Strings are sequences of tokens (the characters of a name, the fields   *)
(* and colons of an ARN), so that concatenation, indexOf, substring, split *)
(* and join are computed as the code computes them.                        *)
(*                                                                         *)
(* The module holds several specifications over disjoint groups of         *)
(* variables; each leaves the other groups untouched:                      *)
(*   SpecArn    the ARN cache, the arnQueue and the paginated listing      *)
(*   SpecQueue  createQueue and createDeadLetterQueue, call by call, with  *)
(*              provider calls that may fail                               *)
(*   SpecSub    subscribeQueueToTopic and subscribeQueueToTopics over      *)
(*              provisioned topics and queues                              *)
(*   SpecPolicy addToTopicPolicy: the read, the check and the write of a   *)
(*              topic's policy                                             *)
(*   SpecOps    every operation on one topic or one queue, one call at a   *)
(*              time                                                       *)
(*   SpecCreate createSubscription, from a provider that holds nothing     *)
(*   SpecBatch  createTopics, deleteTopics, createQueues, deleteQueues and  *)
(*              createServiceTopics, from a provider that holds one topic  *)
(*   SpecEvent  convertEventToMessageAttributes and the publish paths that *)
(*              take an event and no callback                              *)
(*   SpecName   getQualifiedTopicName and getQualifiedQueueName, from a     *)
(*              process that has resolved no name yet                      *)
(*   SpecPure   isValidTopicName, isValidQueueName and the qualified queue *)
(*              name, applied to arguments drawn from bounded sets         *)
(*   LiveArn    the look-ups through the ARN queue, with every request     *)
(*              answered and the queue's worker taking its next task       *)
(***************************************************************************)
EXTENDS Integers, Sequences, FiniteSets, TLC

VARIABLES
    \* ---- ARN resolution (SpecArn) ----
    topics,            \* provider: the set of topic ARNs that exist (SNS)
    cachedTopicArns,   \* the process-wide cache: bare topic name -> ARN
    environmentName,   \* the module variable; Unset until first resolved
    arnQueue,          \* async.queue: the ids of the tasks waiting, in order
    running,           \* the id of the task the queue's worker runs, or 0
    lk,                \* the lookups: id -> its record
    resolved,          \* history: the names a lookup has succeeded for
    submitted,         \* history: ids pushed to arnQueue, in push order
    started,           \* history: ids the worker started, in order
    delivered,         \* history: ids whose queue callback ran, in order
    \* ---- provisioning (SpecQueue) ----
    queues,            \* provider: qualified queue name -> the queue (SQS)
    calls,             \* the calls of exported operations: id -> its record
    firstDone,         \* history: qualified queue name -> what the first
                       \* successful createQueue for it returned and left
    \* ---- subscriptions (SpecSub) ----
    subs,              \* provider: the subscription records (SNS), in the
                       \* order it made them
    overlapped,        \* history: the topics and queues for which a
                       \* subscribeQueueToTopic began during another
    completed,         \* history: the topics and queues for which a
                       \* subscribeQueueToTopic has succeeded
    \* ---- topic policies (SpecPolicy) ----
    topicPolicies,     \* provider: topic ARN -> the text of its Policy
                       \* attribute (SNS)
    edits,             \* the calls of addToTopicPolicy: id -> its record
    added,             \* history: the topic names and serialized statements
                       \* for which an addToTopicPolicy has succeeded
    raced,             \* history: an addToTopicPolicy began while another
                       \* one was under way
    \* ---- single operations (SpecOps) ----
    filterPolicies,    \* provider: SubscriptionArn -> the text of its
                       \* FilterPolicy attribute (SNS)
    published,         \* provider: the topic ARNs and messages published
    saved,             \* the event store: the events inserted
    \* ---- events (SpecEvent) ----
    event,             \* the event the process has at hand
    messageAttributes, \* what convertEventToMessageAttributes returned for it
    logged,            \* the topic name and error logger.error was given
                       \* by the last publish path without a callback that
                       \* came to its callback
    passed,            \* history: the errors a publish path without a
                       \* callback has passed to its caller
    \* ---- names (SpecName) ----
    deployment,        \* process.env.ENVIRONMENT_NAME, process.env.SERVICE_NAME
                       \* and the host of the remote voyent_config
    serviceName,       \* the module's variable of that name
    named,             \* history: the qualified names returned, each with
                       \* its topic name, its queue name and whether the
                       \* call waited for the remote look-up
    \* ---- functions of their arguments alone (SpecPure) ----
    input,             \* the arguments at hand
    output             \* the function last applied to them, with its result

arnVars == <<topics, cachedTopicArns, environmentName, arnQueue, running,
             lk, resolved, submitted, started, delivered>>

provVars == <<queues, calls, firstDone>>

subVars == <<subs, overlapped, completed, filterPolicies>>

polVars == <<topicPolicies, edits, added, raced>>

\* The variables of the specifications that follow SpecSub.
opVars == <<published, saved>>

evVars == <<event, messageAttributes>>

logVars == <<logged, passed>>

nameVars == <<deployment, serviceName, named>>

pureVars == <<input, output>>

restVars == <<polVars, opVars, evVars, logVars, nameVars, pureVars>>

vars == <<arnVars, provVars, subVars, restVars>>

(***************************************************************************)
(* Strings                                                                 *)
(***************************************************************************)
Lower == {"a","b","c","d","e","f","g","h","i","j","k","l","m",
          "n","o","p","q","r","s","t","u","v","w","x","y","z"}
Upper == {"A","B","C","D","E","F","G","H","I","J","K","L","M",
          "N","O","P","Q","R","S","T","U","V","W","X","Y","Z"}
Digit == {"0","1","2","3","4","5","6","7","8","9"}

\* The character class of the regular expression of isValidName.
NameChars == Lower \cup Upper \cup Digit \cup {"-", "_"}

\* String.prototype.indexOf: the 0-based position of the first occurrence of
\* sub in s, or -1.
IndexOf(s, sub) ==
    LET hits == {i \in 0..(Len(s) - Len(sub)) :
                    SubSeq(s, i + 1, i + Len(sub)) = sub}
    IN  IF hits = {} THEN -1
        ELSE CHOOSE i \in hits : \A j \in hits : i <= j

\* String.prototype.substring(from): the characters from 0-based position from.
Substring(s, from) == SubSeq(s, from + 1, Len(s))

(***************************************************************************)
(* Names                                                                   *)
(***************************************************************************)
TopicNameMax == 24
QueueNameMax == 80

IsValidNameBeforeNewline(name, length) ==
    /\ name # <<>>
    /\ LET core == IF name[Len(name)] = "\n"
                   THEN SubSeq(name, 1, Len(name) - 1)
                   ELSE name
       IN  /\ core # <<>>
           /\ Len(core) <= length
           /\ \A i \in 1..Len(core) : core[i] \in NameChars

\* isValidName(name, length): the name is present and matches
\* ^([a-zA-Z0-9\-\_]){1,length}$
IsValidName(name, length) ==
    /\ name # <<>>
    /\ Len(name) <= length
    /\ \A i \in 1..Len(name) : name[i] \in NameChars

IsValidTopicName(topicName) == IsValidName(topicName, TopicNameMax)

IsValidQueueName(queueName) == IsValidName(queueName, QueueNameMax)

\* The environment of this process, and another environment of the same
\* account whose name ends with this one's.
ENV      == <<"d">>
OtherEnv == <<"x", "d">>
Unset    == <<>>

\* getQualifiedTopicName: eName + '_' + topicName
QualifiedTopicName(eName, topicName) == eName \o <<"_">> \o topicName

\* The ARN the provider gives a topic: a fixed partition/region/account prefix
\* followed by the topic's (qualified) name.
\* A string is a sequence of tokens: the characters of a name, and the
\* fields and colons of an ARN's prefix.
SnsArnBase == <<"arn", ":", "aws", ":", "sns", ":", "r", ":", "1", ":">>
TopicArnOf(qualifiedName) == SnsArnBase \o qualifiedName

NameA   == <<"a">>
NameB   == <<"b">>
BadName == <<"!">>

\* The names lookups are made for: two valid ones and an invalid one.
LookupNames == {NameA, NameB, BadName}

\* Every topic the provider may hold, in the order its listing returns them.
TopicUniverse ==
    << TopicArnOf(QualifiedTopicName(ENV, NameA)),
       TopicArnOf(QualifiedTopicName(ENV, NameB)),
       TopicArnOf(QualifiedTopicName(OtherEnv, NameA)) >>

\* getServiceName(): process.env.SERVICE_NAME, here one character long
ServiceName == <<"s">>

\* The topics of the service's own name, which the listing returns last.
ServiceTopics ==
    << TopicArnOf(QualifiedTopicName(ENV, ServiceName)),
       TopicArnOf(QualifiedTopicName(ENV, ServiceName \o <<"-", "x">>)),
       TopicArnOf(QualifiedTopicName(ENV, ServiceName \o <<"-", "y">>)) >>

Rank(arn) ==
    LET listing == TopicUniverse \o ServiceTopics
    IN  CHOOSE i \in 1..Len(listing) : listing[i] = arn

(***************************************************************************)
(* Bounds                                                                  *)
(***************************************************************************)
MaxLookups == 2      \* lookups known at one time
PageSize   == 1      \* topics per list-topics page

LookupIds == 1..MaxLookups

(***************************************************************************)
(* The provider's paginated list-topics (sns.listTopics)                   *)
(***************************************************************************)
\* The topics after the continuation token (the rank of the last topic the
\* previous page returned; 0 on the first call), in listing order.
RestAfter(ts, token) == {t \in ts : Rank(t) > token}

RECURSIVE InOrder(_)
InOrder(ts) ==
    IF ts = {} THEN <<>>
    ELSE LET first == CHOOSE t \in ts : \A u \in ts : Rank(t) <= Rank(u)
         IN  <<first>> \o InOrder(ts \ {first})

\* One page: at most PageSize topics, and a NextToken (0: none) when topics
\* remain after it.
ListTopicsPage(ts, token) ==
    LET rest == InOrder(RestAfter(ts, token))
        n    == IF Len(rest) < PageSize THEN Len(rest) ELSE PageSize
        page == SubSeq(rest, 1, n)
    IN  [Topics    |-> page,
         NextToken |-> IF Len(rest) > n THEN Rank(page[n]) ELSE 0]

(***************************************************************************)
(* cacheTopicArns: the loop over the listing                               *)
(***************************************************************************)
\* One iteration of ld.each(allTopics, ...): cache the ARN under the text
\* that follows the first occurrence of envName + '_' in it.
CacheOne(cache, arn, envName) ==
    LET envPrefix    == envName \o <<"_">>
        envNameIndex == IndexOf(arn, envPrefix)
    IN  IF envNameIndex >= 0
        THEN LET envTopicName == Substring(arn, envNameIndex)
                 topicName    == Substring(envTopicName, Len(envPrefix))
             IN  [k \in (DOMAIN cache) \cup {topicName} |->
                     IF k = topicName THEN arn ELSE cache[k]]
        ELSE cache

RECURSIVE CacheAll(_, _, _)
CacheAll(cache, allTopics, envName) ==
    IF allTopics = <<>> THEN cache
    ELSE CacheAll(CacheOne(cache, Head(allTopics), envName),
                  Tail(allTopics), envName)

EmptyCache == [k \in {} |-> <<>>]

\* cachedTopicArns[topicName] is truthy
Cached(cache, topicName) == topicName \in DOMAIN cache

(***************************************************************************)
(* async.queue(worker, 1): tasks are taken from the front                  *)
(***************************************************************************)
ShiftFromBack(q) == [rest |-> SubSeq(q, 1, Len(q) - 1), task |-> q[Len(q)]]

\* The task the worker takes next, and the tasks left waiting.
Shift(q) == [rest |-> Tail(q), task |-> Head(q)]

WorkerAlwaysFree(r) == TRUE

\* The queue's concurrency is 1: a task is taken only while none runs.
\* r: the id of the running task, or 0.
WorkerFree(r) == r = 0

(***************************************************************************)
(* Queues: names, policies and the provider's SQS calls                    *)
(***************************************************************************)
MaxCalls == 2        \* calls of exported operations known at one time
MaxItems == 2        \* executions of subscribeQueueToTopic under way at
                     \* one time

CallIds == 1..MaxCalls

DLQ_TOPIC_NAME == <<"i", "n", "t", "e", "r", "n", "a", "l">>
DLQ_QUEUE_NAME == <<"d", "l", "q">>

NameQ == <<"q">>

QualifiedQueueName(eName, topicName, queueName) ==
    QualifiedTopicName(eName, topicName)
        \o <<"_">> \o ServiceName \o <<"_">> \o queueName

\* String.prototype.split(sep): the pieces of s between the separators
RECURSIVE Split(_, _)
Split(s, sep) ==
    LET i == IndexOf(s, <<sep>>)
    IN  IF i < 0 THEN <<s>>
        ELSE <<SubSeq(s, 1, i)>> \o Split(Substring(s, i + 1), sep)

\* String.prototype.split(sep, limit): at most limit pieces, the rest dropped
SplitLimit(s, sep, limit) ==
    LET all == Split(s, sep)
    IN  SubSeq(all, 1, IF Len(all) < limit THEN Len(all) ELSE limit)

\* Array.prototype.join(sep)
RECURSIVE Join(_, _)
Join(pieces, sep) ==
    IF pieces = <<>> THEN <<>>
    ELSE IF Len(pieces) = 1 THEN pieces[1]
    ELSE pieces[1] \o <<sep>> \o Join(Tail(pieces), sep)

GetQueuePolicy(queueArn) ==
    LET split     == [SplitLimit(queueArn, ":", 5) EXCEPT ![3] = <<"sns">>]
        sourceArn == Join(split, ":") \o <<":", "*">>
    IN  [Id        |-> queueArn \o <<"/SQSDefaultPolicy">>,
         Resource  |-> queueArn,
         SourceArn |-> sourceArn]

GetRedrivePolicy(dlqArn) ==
    [deadLetterTargetArn |-> dlqArn, maxReceiveCount |-> "10"]

\* The Attributes of createQueue's create request
QueueAttributes ==
    [MessageRetentionPeriod        |-> "43200",
     ReceiveMessageWaitTimeSeconds |-> "20",
     VisibilityTimeout             |-> "180"]

\* The Attributes of createDeadLetterQueue's create request
DlqAttributes == [MessageRetentionPeriod |-> "1209600"]

\* ---- the provider (SQS) ----
SqsArnBase == <<"arn", ":", "aws", ":", "sqs", ":", "r", ":", "1", ":">>
QueueArnOf(qName) == SqsArnBase \o qName

SqsUrlBase == <<"https://sqs/">>
QueueUrlOf(qName) == SqsUrlBase \o qName
NameOfUrl(url) == Substring(url, Len(SqsUrlBase))

NoQueues == [k \in {} |-> <<>>]

\* The value of attribute k of an attribute map, or <<>> when it has none.
Attr(attributes, k) ==
    IF k \in DOMAIN attributes THEN attributes[k] ELSE <<>>

\* attrs laid over old: the attributes named in attrs take its values
SetAttrs(old, attrs) ==
    [k \in (DOMAIN old) \cup (DOMAIN attrs) |->
        IF k \in DOMAIN attrs THEN attrs[k] ELSE old[k]]

\* No function has been applied.
NoOutput == <<"none">>

\* No event has been converted yet.
NotConverted == <<"not converted">>

\* The queue as the provider makes it.  by, creator and returned are history:
\* the function whose request made it, the call that issued the request, and
\* how that call has returned ("no": not yet).
NewQueue(qName, attrs, by, id) ==
    [by |-> by,
     Attributes |-> SetAttrs([QueueArn |-> QueueArnOf(qName)], attrs),
     creator |-> id, returned |-> "no"]

Put(qs, qName, q) ==
    [k \in (DOMAIN qs) \cup {qName} |-> IF k = qName THEN q ELSE qs[k]]

SqsCreateQueueRecreating(qs, qName, attrs, by, id) ==
    [queues |-> Put(qs, qName, NewQueue(qName, attrs, by, id)),
     err |-> FALSE, made |-> TRUE, QueueUrl |-> QueueUrlOf(qName)]

\* sqs.createQueue(params): create-queue is idempotent for an identical name
\* and identical attributes; a request for a name in use with other
\* attributes is refused.
SqsCreateQueue(qs, qName, attrs, by, id) ==
    IF qName \notin DOMAIN qs
    THEN [queues |-> Put(qs, qName, NewQueue(qName, attrs, by, id)),
          err |-> FALSE, made |-> TRUE, QueueUrl |-> QueueUrlOf(qName)]
    ELSE IF \A k \in DOMAIN attrs : Attr(qs[qName].Attributes, k) = attrs[k]
    THEN [queues |-> qs,
          err |-> FALSE, made |-> FALSE, QueueUrl |-> QueueUrlOf(qName)]
    ELSE [queues |-> qs, err |-> TRUE, made |-> FALSE, QueueUrl |-> <<>>]

\* sqs.setQueueAttributes(params)
SqsSetQueueAttributes(qs, url, attrs) ==
    [qs EXCEPT ![NameOfUrl(url)].Attributes = SetAttrs(@, attrs)]

\* ---- calls ----
\* pc: where the call waits.  "qualify": for the environment name;
\* "create", "url", "attrs", "set": for the answer to createQueue's
\* sqs.createQueue, getQueueArn's sqs.getQueueUrl and sqs.getQueueAttributes,
\* and the last sqs.setQueueAttributes; "dlqCreate", "dlqUrl", "dlqAttrs",
\* "dlqPolicy": for the answers to the four requests of createDeadLetterQueue.
\* res: "ok", or the error: "invalid" (a name), "enverr" (the environment
\* name), "exists" and "nonexistent" (a refusal by the provider that follows
\* from the state of its queues), "provider" (any other failure of a request).
\* made and after are history: this call's create request made the queue;
\* a createQueue for the same queue had succeeded when this call began.
IdleCall ==
    [topicName |-> <<>>, queueName |-> <<>>, arn |-> <<>>,
     queueArn |-> <<>>, dlqArn |-> <<>>, made |-> FALSE,
     op |-> "none", topicNames |-> <<>>, items |-> <<>>, pc |-> "idle",
     queueUrl |-> <<>>, dlqUrl |-> <<>>, res |-> "none", after |-> FALSE,
     todo |-> <<>>, message |-> <<>>, filter |-> <<>>, stage |-> "none"]

(***************************************************************************)
(* Subscriptions: the provider's SNS calls and the subscribe items         *)
(***************************************************************************)
MULTIPLE_TOPICS == <<"m", "u", "l", "t", "i", "p", "l", "e",
                     "T", "o", "p", "i", "c", "s">>

GetTopicNameFirst(topicNames) == topicNames[1]

\* getTopicName(topicNames)
GetTopicName(topicNames) ==
    IF Len(topicNames) = 1 THEN topicNames[1] ELSE MULTIPLE_TOPICS

NoSub == [SubscriptionArn |-> 0, TopicArn |-> <<>>, Endpoint |-> <<>>]

\* sns.listSubscriptionsByTopic(params): the topic's records, in the order
\* the provider made them (the listing is of one page, which holds them all).
SnsListSubscriptionsByTopic(ss, topicArn) ==
    SelectSeq(ss, LAMBDA sub : sub.TopicArn = topicArn)

\* sns.subscribe(params): the provider makes one record for each request.
SnsSubscribe(ss, topicArn, endpoint) ==
    Append(ss, [SubscriptionArn |-> Len(ss) + 1,
                TopicArn |-> topicArn, Endpoint |-> endpoint])

FindByTopicArn(subscriptions, queueArn) ==
    LET hits == SelectSeq(subscriptions,
                          LAMBDA sub : queueArn = sub.TopicArn)
    IN  IF hits = <<>> THEN NoSub ELSE Head(hits)

\* checkQueueAlreadySubscribed's ld.find: the first record whose Endpoint is
\* the queue's ARN, or none.
ExistingSub(subscriptions, queueArn) ==
    LET hits == SelectSeq(subscriptions,
                          LAMBDA sub : queueArn = sub.Endpoint)
    IN  IF hits = <<>> THEN NoSub ELSE Head(hits)

\* The positions of the items of call c.
ItemsOf(c) == DOMAIN c.items

\* The topic name under which subscribeQueueToTopic looks the queue up.
QueueTopicName(topicName, isMultiTopic) ==
    IF isMultiTopic THEN MULTIPLE_TOPICS ELSE topicName

\* An item is one execution of subscribeQueueToTopic.
\* pc: "arns": the two look-ups of async.parallel are under way (tpc, qpc:
\* "wait" or "ok"); "check": the list request of checkQueueAlreadySubscribed
\* is out; "subscribe": the subscribe request is out; "done".
\* asked is history: the item sent a subscribe request, or the request that
\* sets the filter; was is history: the text of the FilterPolicy attribute
\* when the item's request replaced it.
NewItem(topicName, isMultiTopic) ==
    [sub |-> NoSub, topicName |-> topicName, queueArn |-> <<>>,
     pc |-> "arns", res |-> "none", topicArn |-> <<>>,
     multi |-> isMultiTopic, tpc |-> "wait", qpc |-> "wait",
     asked |-> FALSE, was |-> <<>>]

ItemDone(it, res) ==
    [it EXCEPT !.pc = "done", !.res = res, !.tpc = "wait", !.qpc = "wait",
               !.topicArn = <<>>, !.queueArn = <<>>]

\* subscribeQueueToTopic up to async.parallel: the two name checks.
StartItem(topicName, isMultiTopic, queueName) ==
    LET it == NewItem(topicName, isMultiTopic)
    IN  IF ~IsValidTopicName(topicName) \/ ~IsValidQueueName(queueName)
        THEN ItemDone(it, "invalid")
        ELSE it

CallbackAtFirst(c) ==
    IF c.pc # "running" THEN c
    ELSE IF \E k \in ItemsOf(c) : c.items[k].pc = "done"
    THEN LET k == CHOOSE k \in ItemsOf(c) : c.items[k].pc = "done"
         IN  [c EXCEPT !.pc = "done", !.res = c.items[k].res]
    ELSE c

\* The callback of the call: async.each calls back with the first error of
\* an item, or when every item has called back.
Callback(c) ==
    IF c.pc # "running" THEN c
    ELSE IF \E k \in ItemsOf(c) :
                c.items[k].pc = "done" /\ c.items[k].res # "ok"
    THEN LET k == CHOOSE k \in ItemsOf(c) :
                     c.items[k].pc = "done" /\ c.items[k].res # "ok"
         IN  [c EXCEPT !.pc = "done", !.res = c.items[k].res]
    ELSE IF \A k \in ItemsOf(c) : c.items[k].pc = "done"
    THEN [c EXCEPT !.pc = "done", !.res = "ok"]
    ELSE c

\* createTopic up to its create request: the name check, then
\* getQualifiedTopicName, which with the environment name known goes on to
\* the request in the same turn.
StartTopic(topicName) ==
    LET it == NewItem(topicName, FALSE)
    IN  IF ~IsValidTopicName(topicName) THEN ItemDone(it, "invalid")
        ELSE [it EXCEPT !.pc = "create", !.asked = TRUE]

\* deleteTopic up to its look-up: the name check, then queuedGetTopicArn.
StartDelete(topicName) ==
    LET it == NewItem(topicName, FALSE)
    IN  IF ~IsValidTopicName(topicName) THEN ItemDone(it, "invalid")
        ELSE [it EXCEPT !.pc = "lookup"]

\* An item async.eachLimit has not called its function for yet.
Waiting(topicName) == [NewItem(topicName, FALSE) EXCEPT !.pc = "waiting"]

EachAtOnce(c) ==
    IF c.op # "createServiceTopics" \/ c.pc # "running" THEN c
    ELSE [c EXCEPT !.items =
             [k \in ItemsOf(c) |->
                 IF c.items[k].pc = "waiting"
                 THEN StartTopic(c.items[k].topicName)
                 ELSE c.items[k]]]

\* async.eachLimit(serviceSuffixes, 1, createTopic, ...) of
\* createServiceTopics: createTopic is called for the next name when the
\* one before has called back without an error, and for none after an error.
RECURSIVE EachLimit(_)
EachLimit(c) ==
    IF \/ c.op # "createServiceTopics"
       \/ c.pc # "running"
       \/ \E k \in ItemsOf(c) : c.items[k].pc \notin {"waiting", "done"}
       \/ \E k \in ItemsOf(c) :
             c.items[k].pc = "done" /\ c.items[k].res # "ok"
       \/ \A k \in ItemsOf(c) : c.items[k].pc # "waiting"
    THEN c
    ELSE LET k == CHOOSE k \in ItemsOf(c) :
                     /\ c.items[k].pc = "waiting"
                     /\ \A j \in ItemsOf(c) :
                           c.items[j].pc = "waiting" => k <= j
         IN  EachLimit([c EXCEPT !.items[k] =
                           StartTopic(c.items[k].topicName)])

(***************************************************************************)
(* Topic policies: JSON and the provider's topic attributes                *)
(***************************************************************************)
\* A policy statement is an object: its keys with their values, in the order
\* the keys were added (the order JSON.stringify writes and JSON.parse
\* restores).  Each key and each value is one token.
DefaultStatement == << <<"Sid", "default">>, <<"Effect", "Allow">> >>
StatementA       == << <<"Sid", "a">>, <<"Effect", "Allow">> >>
StatementAkeys   == << <<"Effect", "Allow">>, <<"Sid", "a">> >>
StatementB       == << <<"Sid", "b">>, <<"Effect", "Allow">> >>

\* JSON.stringify of a statement
JsonStringify(obj) ==
    <<"{">> \o Join([i \in 1..Len(obj) |-> <<obj[i][1], ":", obj[i][2]>>], ",")
            \o <<"}">>

\* JSON.stringify(currentPolicy): the policy's Statement array
JsonStringifyPolicy(policy) ==
    <<"{", "Statement", ":", "[">>
        \o Join([i \in 1..Len(policy.Statement) |->
                    JsonStringify(policy.Statement[i])], ",")
        \o <<"]", "}">>

\* JSON.parse of the text of one statement
JsonParse(text) ==
    LET inner == SubSeq(text, 2, Len(text) - 1)
        parts == IF inner = <<>> THEN <<>> ELSE Split(inner, ",")
    IN  [i \in 1..Len(parts) |-> <<parts[i][1], parts[i][3]>>]

\* JSON.parse of the text between the brackets of an array of statements
RECURSIVE JsonParseArray(_)
JsonParseArray(text) ==
    IF text = <<>> THEN <<>>
    ELSE LET close == IndexOf(text, <<"}">>)
         IN  <<JsonParse(SubSeq(text, 1, close + 1))>>
                \o JsonParseArray(Substring(text, close + 2))

\* JSON.parse(currentPolicy) does not throw
JsonParses(text) ==
    /\ Len(text) >= 6
    /\ SubSeq(text, 1, 4) = <<"{", "Statement", ":", "[">>
    /\ SubSeq(text, Len(text) - 1, Len(text)) = <<"]", "}">>

JsonParsePolicy(text) ==
    [Statement |-> JsonParseArray(SubSeq(text, 5, Len(text) - 2))]

HasStatementNever(currentStatements, newStatement) == FALSE

\* updateCurrentPolicy's ld.some: a statement of the policy has the
\* serialization of the new one.
HasStatement(currentStatements, newStatement) ==
    \E i \in 1..Len(currentStatements) :
        JsonStringify(currentStatements[i]) = JsonStringify(newStatement)

PushAlone(currentPolicy, newStatement) ==
    [currentPolicy EXCEPT !.Statement = <<newStatement>>]

\* currentStatements.push(newStatement)
Push(currentPolicy, newStatement) ==
    [currentPolicy EXCEPT !.Statement = Append(@, newStatement)]

\* sns.setTopicAttributes(params) with AttributeName 'Policy': the provider
\* keeps the value in place of the one it held.
SnsSetTopicAttributes(policies, topicArn, value) ==
    [policies EXCEPT ![topicArn] = value]

\* A call of addToTopicPolicy.
\* pc: "arn": getTopicArn's listing is under way; "get": the request of
\* getCurrentTopicPolicy is out; "set": the request of updateCurrentPolicy is
\* out; "done".  res: "ok", or the error: "invalid", "notfound" (no ARN),
\* "nopolicy", "parse", "provider".
\* asked and after are history: the call sent a set-topic-attributes
\* request; a call with the same topic and statement had succeeded when this
\* one began.
IdleEdit ==
    [topicName |-> <<>>, pc |-> "idle", res |-> "none", after |-> FALSE,
     topicArn |-> <<>>, asked |-> FALSE, currentPolicy |-> <<>>,
     statement |-> <<>>, modifiedPolicy |-> <<>>]

\* The variables of the specifications below, as SpecArn, SpecQueue and
\* SpecSub leave them.
InitRest ==
    /\ topicPolicies = [t \in {} |-> <<>>]
    /\ edits = [i \in CallIds |-> IdleEdit]
    /\ added = {}
    /\ raced = FALSE
    /\ filterPolicies = [a \in {} |-> <<>>]
    /\ published = {}
    /\ saved = {}
    /\ event = <<>>
    /\ messageAttributes = NotConverted
    /\ logged = {}
    /\ passed = {}
    /\ deployment = <<ENV, ServiceName, <<>> >>
    /\ serviceName = ServiceName
    /\ named = {}
    /\ input = <<>>
    /\ output = NoOutput

(***************************************************************************)
(* Events and message attributes                                           *)
(***************************************************************************)
\* A JavaScript value: its type, then the number (for an object the number
\* of its own keys, for an array its length), then the string.
Undefined  == <<"undefined", 0, <<>> >>
Null       == <<"null", 0, <<>> >>
Bool(b)    == <<"boolean", IF b THEN 1 ELSE 0, <<>> >>
Number(n)  == <<"number", n, <<>> >>
String(s)  == <<"string", 0, s>>
Object(n)  == <<"object", n, <<>> >>
Array(n)   == <<"array", n, <<>> >>

\* ld.isUndefined, ld.isObject, ld.isString, ld.isNumber
IsUndefined(value) == value[1] = "undefined"
IsObject(value)    == value[1] \in {"object", "array", "function"}
IsString(value)    == value[1] = "string"
IsNumber(value)    == value[1] = "number"

IsEmptyString(value) == IsString(value) /\ value[3] = <<>>

\* ld.isEmpty: null and undefined are empty, a string or an array is when
\* its length is 0, and any other value is when it has no own enumerable
\* key, as every number and boolean.
IsEmpty(value) ==
    CASE value[1] \in {"undefined", "null"} -> TRUE
      [] value[1] = "string"                -> Len(value[3]) = 0
      [] value[1] \in {"array", "object"}   -> value[2] = 0
      [] OTHER                              -> TRUE

\* Number.prototype.toString() of an integer
RECURSIVE Digits(_)
Digits(n) ==
    LET d == <<"0", "1", "2", "3", "4", "5", "6", "7", "8", "9">>
    IN  IF n < 10 THEN <<d[n + 1]>>
        ELSE Digits(n \div 10) \o <<d[(n % 10) + 1]>>

NumberToString(n) == IF n < 0 THEN <<"-">> \o Digits(-n) ELSE Digits(n)

VALUE_IS_UNDEFINED == <<"[value is undefined]">>

\* No attribute: the result convertPropertyToAttribute leaves undefined.
NoAttribute == <<"none", <<>> >>

\* convertPropertyToAttribute(key, value): the attribute put under key, as
\* its DataType and its StringValue
ConvertPropertyToAttribute(value) ==
    IF IsUndefined(value) \/ IsEmpty(value)
    THEN <<"String", VALUE_IS_UNDEFINED>>
    ELSE IF IsString(value) THEN <<"String", value[3]>>
    ELSE IF IsNumber(value) THEN <<"Number", NumberToString(value[2])>>
    ELSE NoAttribute

\* convertEventToMessageAttributes(event): an event is the sequence of its
\* top-level keys with their values, the result the sequence of the keys
\* that were given an attribute, with it.
RECURSIVE ConvertEventToMessageAttributes(_)
ConvertEventToMessageAttributes(ev) ==
    IF ev = <<>> THEN <<>>
    ELSE LET key     == ev[1][1]
             val     == ev[1][2]
             rest    == ConvertEventToMessageAttributes(Tail(ev))
             convert == ConvertPropertyToAttribute(val)
         IN  IF IsUndefined(val) \/ IsObject(val) \/ convert = NoAttribute
             THEN rest
             ELSE << <<key, convert>> >> \o rest

\* JSON.stringify(event): a property of undefined value is left out; the
\* text of a value is taken as one token.
EventJson(ev) ==
    LET kept == SelectSeq(ev, LAMBDA p : ~IsUndefined(p[2]))
    IN  JsonStringify([i \in 1..Len(kept) |->
                          <<kept[i][1], ToString(kept[i][2])>>])

\* String.prototype.trim()
RECURSIVE Trim(_)
Trim(str) ==
    IF str = <<>> THEN str
    ELSE IF Head(str) = " " THEN Trim(Tail(str))
    ELSE IF str[Len(str)] = " " THEN Trim(SubSeq(str, 1, Len(str) - 1))
    ELSE str

\* publishEventToServiceTopic's topic name: the service name, with '-' and
\* the trimmed suffix when a suffix is given and is not blank.
ServiceTopicName(topicSuffix) ==
    IF topicSuffix # <<>> /\ Len(Trim(topicSuffix)) > 0
    THEN ServiceName \o <<"-">> \o Trim(topicSuffix)
    ELSE ServiceName

(***************************************************************************)
(* Lookups: executions of getTopicArn                                      *)
(***************************************************************************)
\* via: "queued" for the callers of queuedGetTopicArn (the exported
\* getTopicArn, publishMessageToTopic, subscribeQueueToTopic,
\* setFilterForSubscription, deleteTopic), "direct" for addToTopicPolicy,
\* which calls getTopicArn itself.
\* pc: idle -> queued | qualify -> listing -> env -> done
\* token, all: nextToken and allTopics of getAllTopics.
\* History fields:
\*   listings  runs of getAllTopics this lookup began
\*   cold      the cache was empty when the lookup began
\*   after     a lookup of the same name had succeeded when this one was
\*             submitted
\*   during    the queued lookup whose listing was in flight when this one
\*             was pushed (0: none)
\*   absent    the topics of this environment missing from the provider at
\*             some moment of the listing so far
\*   gone      the topic of this environment with the lookup's name was
\*             missing at some moment of the listing (its own, or the one
\*             named by during)
\*   sawOwn    the completed listing held the topic of this environment with
\*             the lookup's name
\*   stale     the lookup was answered from the cache with the ARN of a
\*             topic the provider no longer held
IdleLookup ==
    [name |-> <<>>, arn |-> <<>>, token |-> 0, all |-> <<>>, pc |-> "idle",
     res |-> "none", after |-> FALSE, via |-> "none", listings |-> 0,
     cold |-> FALSE, during |-> 0, absent |-> {},
     gone |-> FALSE, sawOwn |-> FALSE, stale |-> FALSE]

InFlight(l) == l.pc \in {"listing", "env"}

OwnArn(name) == TopicArnOf(QualifiedTopicName(ENV, name))

AllTopics == {TopicUniverse[i] : i \in 1..Len(TopicUniverse)}

OwnTopics == {OwnArn(NameA), OwnArn(NameB)}

\* getTopicArn up to its first asynchronous call: an invalid name and a
\* cache hit call back at once; a miss starts cacheTopicArns, whose
\* getAllTopics issues the first list-topics call.  ts: the provider's topics.
GetTopicArn(l, cache, ts) ==
    IF ~IsValidTopicName(l.name)
    THEN [l EXCEPT !.pc = "done", !.res = "invalid"]
    ELSE IF Cached(cache, l.name)
    THEN [l EXCEPT !.pc = "done", !.res = "ok", !.arn = cache[l.name],
                   !.stale = cache[l.name] \notin ts]
    ELSE [l EXCEPT !.pc = "listing", !.token = 0, !.all = <<>>,
                   !.listings = @ + 1,
                   !.cold = (DOMAIN cache = {}),
                   !.absent = OwnTopics \ ts]

CacheTopicArnsReplacing(cache, allTopics, envName) ==
    CacheAll(EmptyCache, allTopics, envName)

\* cacheTopicArns once the listing and the environment name are there: every
\* matching ARN is stored, the entries already cached are kept.
CacheTopicArns(cache, allTopics, envName) ==
    CacheAll(cache, allTopics, envName)

CachePagesSoFar(cache, allTopics, envName) ==
    IF envName = Unset THEN cache ELSE CacheAll(cache, allTopics, envName)

\* cacheTopicArns when getAllTopics or getEnvironmentName called back with
\* an error: it calls back with the error before it stores anything.
CacheOnError(cache, allTopics, envName) == cache

\* The listing is over: its history is folded into gone and sawOwn.
Listed(l) ==
    [l EXCEPT !.gone = @ \/ OwnArn(l.name) \in l.absent,
              !.sawOwn = \E i \in 1..Len(l.all) : l.all[i] = OwnArn(l.name),
              !.absent = {}, !.all = <<>>, !.token = 0]

\* The end of getTopicArn after cacheTopicArns called back without error.
AfterRefresh(l, cache) ==
    IF Cached(cache, l.name)
    THEN [Listed(l) EXCEPT !.pc = "done", !.res = "ok", !.arn = cache[l.name]]
    ELSE [Listed(l) EXCEPT !.pc = "done", !.res = "notfound"]

\* The end of getTopicArn when cacheTopicArns called back with an error.
RefreshFailed(l, kind) ==
    [l EXCEPT !.pc = "done", !.res = kind, !.absent = {}, !.all = <<>>,
              !.token = 0]

SettleKeepingTheWorkerOnError(id, l) ==
    /\ lk' = [lk EXCEPT ![id] = l]
    /\ resolved' = IF l.res = "ok" THEN resolved \cup {l.name} ELSE resolved
    /\ IF l.via = "queued" /\ l.pc = "done"
       THEN /\ delivered' = Append(delivered, id)
            /\ running' = IF l.res = "ok" THEN 0 ELSE id
       ELSE /\ delivered' = delivered
            /\ running' = IF l.via = "queued" THEN id ELSE running

\* The queue's bookkeeping when lookup id moves to record l: a queued lookup
\* that is done has had its callback run and frees the worker.
Settle(id, l) ==
    /\ lk' = [lk EXCEPT ![id] = l]
    /\ resolved' = IF l.res = "ok" THEN resolved \cup {l.name} ELSE resolved
    /\ IF l.via = "queued" /\ l.pc = "done"
       THEN /\ delivered' = Append(delivered, id)
            /\ running' = 0
       ELSE /\ delivered' = delivered
            /\ running' = IF l.via = "queued" THEN id ELSE running

NextId == CHOOSE i \in LookupIds :
             /\ lk[i].pc = "idle"
             /\ \A j \in LookupIds : lk[j].pc = "idle" => i <= j

\* queuedGetTopicArn(topicName, cb): arnQueue.push
QueuedGetTopicArn(name) ==
    /\ \E i \in LookupIds : lk[i].pc = "idle"
    /\ LET d == IF running # 0 /\ lk[running].pc = "listing"
                THEN running ELSE 0
       IN  lk' = [lk EXCEPT ![NextId] =
                [IdleLookup EXCEPT
                    !.name = name, !.via = "queued", !.pc = "queued",
                    !.after = (name \in resolved),
                    !.during = d,
                    !.gone = d # 0 /\ OwnArn(name) \in lk[d].absent]]
    /\ arnQueue' = Append(arnQueue, NextId)
    /\ submitted' = Append(submitted, NextId)
    /\ UNCHANGED <<topics, cachedTopicArns, environmentName, running,
                   resolved, started, delivered>>
    /\ UNCHANGED <<provVars, subVars, restVars>>

\* The queue's worker takes the next task when it runs none.
StartNext ==
    /\ WorkerFree(running)
    /\ arnQueue # <<>>
    /\ LET s  == Shift(arnQueue)
           id == s.task
       IN  /\ arnQueue' = s.rest
           /\ started' = Append(started, id)
           /\ Settle(id, GetTopicArn(lk[id], cachedTopicArns, topics))
    /\ UNCHANGED <<topics, cachedTopicArns, environmentName, submitted>>
    /\ UNCHANGED <<provVars, subVars, restVars>>

\* addToTopicPolicy(topicName, statement) up to its lookup: the first step of
\* its series is getQualifiedTopicName (the name check, then the environment
\* name), the second calls getTopicArn, not the queue.
AddToTopicPolicy(name) ==
    /\ \E i \in LookupIds : lk[i].pc = "idle"
    /\ LET l == [IdleLookup EXCEPT !.name = name, !.via = "direct",
                                   !.after = (name \in resolved)]
       IN  Settle(NextId,
                IF ~IsValidTopicName(name)
                THEN [l EXCEPT !.pc = "done", !.res = "invalid"]
                ELSE IF environmentName = Unset
                THEN [l EXCEPT !.pc = "qualify"]
                ELSE GetTopicArn(l, cachedTopicArns, topics))
    /\ UNCHANGED <<topics, cachedTopicArns, environmentName, arnQueue,
                   submitted, started>>
    /\ UNCHANGED <<provVars, subVars, restVars>>

KeepLastPage(allTopics, page) == page

\* allTopics = ld.concat(allTopics, data.Topics)
Concat(allTopics, page) == allTopics \o page

\* A list-topics call answers with a page.  With a NextToken the next call
\* is issued; without one getAllTopics calls back, and cacheTopicArns asks
\* for the environment name: when it is known the cache is filled and
\* getTopicArn ends in the same turn.
ListTopicsOk(id) ==
    /\ lk[id].pc = "listing"
    /\ LET page == ListTopicsPage(topics, lk[id].token)
           l    == [lk[id] EXCEPT !.all = Concat(@, page.Topics)]
       IN  IF page.NextToken # 0
           THEN /\ Settle(id, [l EXCEPT !.token = page.NextToken])
                /\ UNCHANGED <<cachedTopicArns>>
           ELSE IF environmentName = Unset
           THEN /\ Settle(id, [l EXCEPT !.pc = "env"])
                /\ UNCHANGED <<cachedTopicArns>>
           ELSE /\ cachedTopicArns' =
                      CacheTopicArns(cachedTopicArns, l.all, environmentName)
                /\ Settle(id, AfterRefresh(l, cachedTopicArns'))
    /\ UNCHANGED <<topics, environmentName, arnQueue, submitted, started>>
    /\ UNCHANGED <<provVars, subVars, restVars>>

\* A list-topics call (or getClients before it) fails: the error goes up
\* through getAllTopics and cacheTopicArns to getTopicArn's callback.
ListTopicsFails(id) ==
    /\ lk[id].pc = "listing"
    /\ Settle(id, RefreshFailed(lk[id], "provider"))
    /\ cachedTopicArns' =
          CacheOnError(cachedTopicArns, lk[id].all, environmentName)
    /\ UNCHANGED <<topics, environmentName, arnQueue, submitted, started>>
    /\ UNCHANGED <<provVars, subVars, restVars>>

\* getEnvironmentName's remote look-up answers.
EnvironmentOk(id) ==
    /\ lk[id].pc \in {"env", "qualify"}
    /\ environmentName' = ENV
    /\ IF lk[id].pc = "qualify"
       THEN /\ Settle(id, GetTopicArn(lk[id], cachedTopicArns, topics))
            /\ UNCHANGED <<cachedTopicArns>>
       ELSE /\ cachedTopicArns' =
                  CacheTopicArns(cachedTopicArns, lk[id].all, ENV)
            /\ Settle(id, AfterRefresh(lk[id], cachedTopicArns'))
    /\ UNCHANGED <<topics, arnQueue, submitted, started>>
    /\ UNCHANGED <<provVars, subVars, restVars>>

\* getEnvironmentName's remote look-up fails.
EnvironmentFails(id) ==
    /\ lk[id].pc \in {"env", "qualify"}
    /\ Settle(id, RefreshFailed(lk[id], "enverr"))
    /\ cachedTopicArns' =
          CacheOnError(cachedTopicArns, lk[id].all, environmentName)
    /\ UNCHANGED <<topics, environmentName, arnQueue, submitted, started>>
    /\ UNCHANGED <<provVars, subVars, restVars>>

\* sns.createTopic reaches the provider (from createTopic of this process or
\* of a process of any environment).
ProviderCreateTopic(t) ==
    /\ t \notin topics
    /\ topics' = topics \cup {t}
    /\ UNCHANGED <<cachedTopicArns, environmentName, arnQueue, running, lk,
                   resolved, submitted, started, delivered>>
    /\ UNCHANGED <<provVars, subVars, restVars>>

\* sns.deleteTopic reaches the provider.  The listings in flight, and the
\* lookups pushed during them, note the topic that went missing.
ProviderDeleteTopic(t) ==
    /\ t \in topics
    /\ topics' = topics \ {t}
    /\ lk' = [i \in LookupIds |->
                IF lk[i].pc = "listing" /\ t \in OwnTopics
                THEN [lk[i] EXCEPT !.absent = @ \cup {t}]
                ELSE IF /\ lk[i].during # 0
                        /\ lk[lk[i].during].pc = "listing"
                        /\ t = OwnArn(lk[i].name)
                THEN [lk[i] EXCEPT !.gone = TRUE]
                ELSE lk[i]]
    /\ UNCHANGED <<cachedTopicArns, environmentName, arnQueue, running,
                   resolved, submitted, started, delivered>>
    /\ UNCHANGED <<provVars, subVars, restVars>>

Without(seq, id) == SelectSeq(seq, LAMBDA x : x # id)

\* The caller of a finished lookup has consumed its result: the lookup's
\* record (history of the model, not state of the program) is dropped, unless
\* a lookup still known was pushed during its listing.
Forget(id) ==
    /\ lk[id].pc = "done"
    /\ \A j \in LookupIds : lk[j].during # id
    /\ lk' = [lk EXCEPT ![id] = IdleLookup]
    /\ submitted' = Without(submitted, id)
    /\ started' = Without(started, id)
    /\ delivered' = Without(delivered, id)
    /\ UNCHANGED <<topics, cachedTopicArns, environmentName, arnQueue,
                   running, resolved>>
    /\ UNCHANGED <<provVars, subVars, restVars>>

InitArn ==
    /\ topics \in SUBSET AllTopics
    /\ cachedTopicArns = EmptyCache
    /\ environmentName \in {Unset, ENV}
    /\ arnQueue = <<>>
    /\ running = 0
    /\ lk = [i \in LookupIds |-> IdleLookup]
    /\ resolved = {}
    /\ submitted = <<>>
    /\ started = <<>>
    /\ delivered = <<>>
    /\ queues = NoQueues
    /\ calls = [i \in CallIds |-> IdleCall]
    /\ firstDone = NoQueues
    /\ subs = <<>>
    /\ overlapped = {}
    /\ completed = {}
    /\ InitRest

NextArn ==
    \/ \E name \in LookupNames : QueuedGetTopicArn(name)
    \/ StartNext
    \/ \E name \in LookupNames : AddToTopicPolicy(name)
    \/ \E id \in LookupIds : ListTopicsOk(id)
    \/ \E id \in LookupIds : ListTopicsFails(id)
    \/ \E id \in LookupIds : EnvironmentOk(id)
    \/ \E id \in LookupIds : EnvironmentFails(id)
    \/ \E t \in AllTopics : ProviderCreateTopic(t)
    \/ \E t \in AllTopics : ProviderDeleteTopic(t)
    \/ \E id \in LookupIds : Forget(id)

SpecArn == InitArn /\ [][NextArn]_vars

\* The provider and the environment scope answer every request, with a
\* result or an error, and async.queue starts the next task as soon as its
\* one worker is free.
FairArn ==
    /\ WF_vars(StartNext)
    /\ \A id \in LookupIds :
          /\ WF_vars(ListTopicsOk(id) \/ ListTopicsFails(id))
          /\ WF_vars(EnvironmentOk(id) \/ EnvironmentFails(id))

\* The look-ups through the queue alone, over the topics of one provider
\* state, under those conditions.
InitLive ==
    /\ InitArn
    /\ topics = {OwnArn(NameA), OwnArn(NameB)}

NextLive ==
    \/ \E name \in LookupNames : QueuedGetTopicArn(name)
    \/ StartNext
    \/ \E id \in LookupIds : ListTopicsOk(id)
    \/ \E id \in LookupIds : ListTopicsFails(id)
    \/ \E id \in LookupIds : EnvironmentOk(id)
    \/ \E id \in LookupIds : EnvironmentFails(id)
    \/ \E id \in LookupIds : Forget(id)

LiveArn == InitLive /\ [][NextLive]_vars /\ FairArn

(***************************************************************************)
(* createQueue and createDeadLetterQueue                                   *)
(***************************************************************************)
lookupVars == <<arnQueue, running, lk, resolved, submitted, started,
                delivered>>

NextCall == CHOOSE i \in CallIds :
               /\ calls[i].pc = "idle"
               /\ \A j \in CallIds : calls[j].pc = "idle" => i <= j

DlqName == QualifiedQueueName(environmentName, DLQ_TOPIC_NAME, DLQ_QUEUE_NAME)

Fail(c, res) == [c EXCEPT !.pc = "done", !.res = res]

\* The queues made by requests of call id, once the call has returned.
Returned(qs, id, res) ==
    [n \in DOMAIN qs |->
        IF qs[n].creator = id
        THEN [qs[n] EXCEPT !.creator = 0,
                           !.returned = IF res = "ok" THEN "ok" ELSE "error"]
        ELSE qs[n]]

\* What the first successful createQueue for a queue returned and left.
FirstDone(c, qs) ==
    LET qName == NameOfUrl(c.queueUrl)
    IN  IF c.pc = "done" /\ c.res = "ok" /\ qName \notin DOMAIN firstDone
        THEN Put(firstDone, qName,
                 [arn           |-> c.arn,
                  Policy        |-> Attr(qs[qName].Attributes, "Policy"),
                  RedrivePolicy |-> Attr(qs[qName].Attributes,
                                         "RedrivePolicy")])
        ELSE firstDone

\* What is kept of a call that has returned: its arguments and its result.
Settled(c) ==
    [IdleCall EXCEPT !.op = c.op, !.topicName = c.topicName,
                     !.queueName = c.queueName, !.pc = "done",
                     !.res = c.res, !.arn = c.arn,
                     !.made = c.made, !.after = c.after,
                     !.message = c.message, !.topicNames = c.topicNames,
                     !.filter = c.filter, !.stage = c.stage]

\* The call has called back and nothing of it is under way (an item that
\* waits when the call has called back is never begun).
Over(c) ==
    /\ c.pc = "done"
    /\ \A k \in ItemsOf(c) : c.items[k].pc \in {"done", "waiting"}

\* The record of a call that is over is dropped (ForgetCall) before anything
\* else is taken up: the record is history, and the program goes on alike
\* with or without it.
NoneOver == \A i \in CallIds : ~Over(calls[i])

\* createSubscription's waterfall: when one of its functions has called
\* back without an error the next one is called, in the same turn:
\* createTopics, then createQueue under getTopicName(topicNames), then
\* subscribeQueueToTopics, then, with a filter, setFilterForSubscriptions.
\* With an error, and for a call of another operation, nothing follows.
RECURSIVE Waterfall(_)
Waterfall(c) ==
    IF \/ c.op # "createSubscription"
       \/ c.pc # "done"
       \/ c.res # "ok"
       \/ c.stage = "end"
    THEN c
    ELSE LET topicName == GetTopicName(c.topicNames)
             each == [k \in 1..Len(c.topicNames) |->
                         StartItem(c.topicNames[k], Len(c.topicNames) > 1,
                                   c.queueName)]
         IN  CASE c.stage = "topics" ->
                    IF \/ ~IsValidTopicName(topicName)
                       \/ ~IsValidQueueName(c.queueName)
                    THEN [c EXCEPT !.stage = "queue", !.res = "invalid",
                                   !.items = <<>>]
                    ELSE [c EXCEPT !.stage = "queue", !.pc = "create",
                                   !.res = "none", !.items = <<>>,
                                   !.topicName = topicName]
               [] c.stage = "queue" ->
                    Waterfall(Callback([c EXCEPT
                        !.stage = "subscribe", !.pc = "running",
                        !.res = "none", !.items = each]))
               [] c.stage = "subscribe" ->
                    IF c.filter = <<>> THEN [c EXCEPT !.stage = "end"]
                    ELSE Waterfall(Callback([c EXCEPT
                             !.stage = "filter", !.pc = "running",
                             !.res = "none", !.items = each]))
               [] OTHER -> [c EXCEPT !.stage = "end"]

\* Call id goes on as c, the provider's queues being qs.
CallStep(id, c, qs) ==
    /\ NoneOver
    /\ calls' = [calls EXCEPT ![id] =
                    IF c.pc = "done" THEN Waterfall(Settled(c)) ELSE c]
    /\ queues' = IF c.pc = "done" THEN Returned(qs, id, c.res) ELSE qs
    /\ firstDone' = FirstDone(c, qs)

\* createQueue(topicName, queueName, cb): the two name checks, then the first
\* function of the waterfall, getQualifiedQueueName, which with the
\* environment name known goes on to the create request in the same turn.
CreateQueue(topicName, queueName) ==
    /\ \E i \in CallIds : calls[i].pc = "idle"
    /\ LET c == [IdleCall EXCEPT
                    !.op = "createQueue",
                    !.topicName = topicName, !.queueName = queueName,
                    !.after =
                        /\ environmentName # Unset
                        /\ QualifiedQueueName(environmentName, topicName,
                               queueName) \in DOMAIN firstDone]
       IN  CallStep(NextCall,
                IF ~IsValidTopicName(topicName) \/ ~IsValidQueueName(queueName)
                THEN Fail(c, "invalid")
                ELSE IF environmentName = Unset
                THEN [c EXCEPT !.pc = "qualify"]
                ELSE [c EXCEPT !.pc = "create"],
                queues)
    /\ UNCHANGED <<topics, cachedTopicArns, environmentName, lookupVars,
                   subVars, restVars>>

\* getEnvironmentName's remote look-up answers a call's first
\* getQualifiedQueueName.
QueueEnvironmentOk(id) ==
    /\ calls[id].pc = "qualify"
    /\ environmentName' = ENV
    /\ CallStep(id, [calls[id] EXCEPT !.pc = "create"], queues)
    /\ UNCHANGED <<topics, cachedTopicArns, lookupVars,
                   subVars, restVars>>

QueueEnvironmentFails(id) ==
    /\ calls[id].pc = "qualify"
    /\ CallStep(id, Fail(calls[id], "enverr"), queues)
    /\ UNCHANGED <<topics, cachedTopicArns, environmentName, lookupVars,
                   subVars, restVars>>

\* sqs.createQueue answers: createQueue goes on to getQueueArn (getQueueUrl's
\* request), createDeadLetterQueue likewise.
SqsCreateQueueOk(id) ==
    /\ calls[id].pc \in {"create", "dlqCreate"}
    /\ LET c   == calls[id]
           own == c.pc = "create"
           r   == IF own
                  THEN SqsCreateQueue(queues,
                           QualifiedQueueName(environmentName, c.topicName,
                               c.queueName),
                           QueueAttributes, "createQueue", id)
                  ELSE SqsCreateQueue(queues, DlqName, DlqAttributes,
                           "createDeadLetterQueue", id)
       IN  CallStep(id,
                IF r.err THEN Fail(c, "exists")
                ELSE IF own
                THEN [c EXCEPT !.pc = "url", !.queueUrl = r.QueueUrl,
                               !.made = r.made]
                ELSE [c EXCEPT !.pc = "dlqUrl", !.dlqUrl = r.QueueUrl],
                r.queues)
    /\ UNCHANGED <<topics, cachedTopicArns, environmentName, lookupVars,
                   subVars, restVars>>

\* sqs.getQueueUrl answers getQueueUrl, and getQueueArn asks for the
\* attributes.
SqsGetQueueUrlOk(id) ==
    /\ calls[id].pc \in {"url", "dlqUrl"}
    /\ LET c     == calls[id]
           qName == IF c.pc = "url"
                    THEN QualifiedQueueName(environmentName, c.topicName,
                             c.queueName)
                    ELSE DlqName
       IN  CallStep(id,
                IF qName \notin DOMAIN queues THEN Fail(c, "nonexistent")
                ELSE [c EXCEPT !.pc = IF c.pc = "url" THEN "attrs"
                                      ELSE "dlqAttrs"],
                queues)
    /\ UNCHANGED <<topics, cachedTopicArns, environmentName, lookupVars,
                   subVars, restVars>>

\* sqs.getQueueAttributes answers getQueueArn.  createQueue keeps the ARN and
\* calls createDeadLetterQueue, whose getQualifiedQueueName finds the
\* environment name known and whose create request goes out;
\* createDeadLetterQueue sets the dead letter queue's policy.
SqsGetQueueAttributesOk(id) ==
    /\ calls[id].pc \in {"attrs", "dlqAttrs"}
    /\ LET c     == calls[id]
           own   == c.pc = "attrs"
           qName == NameOfUrl(IF own THEN c.queueUrl ELSE c.dlqUrl)
       IN  CallStep(id,
                IF qName \notin DOMAIN queues THEN Fail(c, "nonexistent")
                ELSE IF own
                THEN [c EXCEPT !.pc = "dlqCreate",
                        !.queueArn = Attr(queues[qName].Attributes,
                                          "QueueArn")]
                ELSE [c EXCEPT !.pc = "dlqPolicy",
                        !.dlqArn = Attr(queues[qName].Attributes,
                                        "QueueArn")],
                queues)
    /\ UNCHANGED <<topics, cachedTopicArns, environmentName, lookupVars,
                   subVars, restVars>>

CreateQueueSetsPolicyOnly(queueArn, dlqArn) ==
    [Policy |-> GetQueuePolicy(queueArn)]

\* The attributes the last function of createQueue's waterfall sets.
CreateQueueSets(queueArn, dlqArn) ==
    [Policy        |-> GetQueuePolicy(queueArn),
     RedrivePolicy |-> GetRedrivePolicy(dlqArn)]

\* sqs.setQueueAttributes answers: createDeadLetterQueue calls back with the
\* dead letter queue's ARN and createQueue sets its queue's two policies;
\* after those createQueue calls back with its queue's ARN.
SqsSetQueueAttributesOk(id) ==
    /\ calls[id].pc \in {"dlqPolicy", "set"}
    /\ LET c == calls[id]
       IN  IF c.pc = "dlqPolicy"
           THEN CallStep(id, [c EXCEPT !.pc = "set"],
                    SqsSetQueueAttributes(queues, c.dlqUrl,
                        [Policy |-> GetQueuePolicy(c.dlqArn)]))
           ELSE CallStep(id,
                    [c EXCEPT !.pc = "done", !.res = "ok",
                              !.arn = c.queueArn],
                    SqsSetQueueAttributes(queues, c.queueUrl,
                        CreateQueueSets(c.queueArn, c.dlqArn)))
    /\ UNCHANGED <<topics, cachedTopicArns, environmentName, lookupVars,
                   subVars, restVars>>

\* A request to the provider (or getClients before it) fails: the error goes
\* up to the call's callback.
SqsFails(id) ==
    /\ calls[id].pc \in {"create", "url", "attrs", "dlqCreate", "dlqUrl",
                         "dlqAttrs", "dlqPolicy", "set"}
    /\ CallStep(id, Fail(calls[id], "provider"), queues)
    /\ UNCHANGED <<topics, cachedTopicArns, environmentName, lookupVars,
                   subVars, restVars>>

\* The caller of a returned call has consumed its result: the call's record
\* (history of the model, not state of the program) is dropped.
ForgetCall(id) ==
    /\ Over(calls[id])
    /\ calls' = [calls EXCEPT ![id] = IdleCall]
    /\ UNCHANGED <<arnVars, queues, firstDone, subVars, restVars>>

\* The names createQueue is called with: a topic and a queue of the caller,
\* a name that fails the check, and the two names createDeadLetterQueue uses.
CreateArgs == {<<NameA, NameQ>>, <<BadName, NameQ>>,
               <<DLQ_TOPIC_NAME, DLQ_QUEUE_NAME>>}

InitQueue ==
    /\ topics = {}
    /\ cachedTopicArns = EmptyCache
    /\ environmentName \in {Unset, ENV}
    /\ arnQueue = <<>>
    /\ running = 0
    /\ lk = [i \in LookupIds |-> IdleLookup]
    /\ resolved = {}
    /\ submitted = <<>>
    /\ started = <<>>
    /\ delivered = <<>>
    /\ queues = NoQueues
    /\ calls = [i \in CallIds |-> IdleCall]
    /\ firstDone = NoQueues
    /\ subs = <<>>
    /\ overlapped = {}
    /\ completed = {}
    /\ InitRest

NextQueue ==
    \/ \E a \in CreateArgs : CreateQueue(a[1], a[2])
    \/ \E id \in CallIds : QueueEnvironmentOk(id)
    \/ \E id \in CallIds : QueueEnvironmentFails(id)
    \/ \E id \in CallIds : SqsCreateQueueOk(id)
    \/ \E id \in CallIds : SqsGetQueueUrlOk(id)
    \/ \E id \in CallIds : SqsGetQueueAttributesOk(id)
    \/ \E id \in CallIds : SqsSetQueueAttributesOk(id)
    \/ \E id \in CallIds : SqsFails(id)
    \/ \E id \in CallIds : ForgetCall(id)

SpecQueue == InitQueue /\ [][NextQueue]_vars

(***************************************************************************)
(* subscribeQueueToTopic and subscribeQueueToTopics                        *)
(***************************************************************************)
\* The topic and the queue an item is about.
Key(it, queueName) == <<it.topicName, it.multi, queueName>>

\* The items under way for the topic and queue of key.
UnderWay(key) ==
    {<<i, k>> \in CallIds \X (1..MaxItems) :
        /\ k <= Len(calls[i].items)
        /\ calls[i].items[k].pc # "done"
        /\ Key(calls[i].items[k], calls[i].queueName) = key}

\* The items under way.
AllUnderWay ==
    {<<i, k>> \in CallIds \X (1..MaxItems) :
        k <= Len(calls[i].items) /\ calls[i].items[k].pc # "done"}

\* A new call of op with the items its.
Begin(op, topicNames, queueName, its) ==
    /\ calls' = [calls EXCEPT ![NextCall] =
                    Callback([IdleCall EXCEPT
                        !.op = op, !.topicNames = topicNames,
                        !.queueName = queueName, !.pc = "running",
                        !.items = its, !.stage = "subscribe"])]
    /\ overlapped' = overlapped \cup
          {key \in {Key(its[k], queueName) : k \in 1..Len(its)} :
              \/ UnderWay(key) # {}
              \/ Cardinality({k \in 1..Len(its) :
                     its[k].pc # "done" /\ Key(its[k], queueName) = key}) > 1}
    /\ UNCHANGED <<arnVars, queues, firstDone, subs, completed,
                   filterPolicies, restVars>>

\* subscribeQueueToTopic(topicName, isMultiTopic, queueName, cb)
SubscribeQueueToTopic(topicName, isMultiTopic, queueName) ==
    /\ NoneOver
    /\ \E i \in CallIds : calls[i].pc = "idle"
    /\ Cardinality(AllUnderWay) + 1 <= MaxItems
    /\ Begin("subscribeQueueToTopic", <<topicName>>, queueName,
             <<StartItem(topicName, isMultiTopic, queueName)>>)

\* subscribeQueueToTopics(topicNames, queueName, cb): async.each begins a
\* subscribeQueueToTopic for every element of topicNames in the same turn.
SubscribeQueueToTopics(topicNames, queueName) ==
    /\ NoneOver
    /\ \E i \in CallIds : calls[i].pc = "idle"
    /\ Cardinality(AllUnderWay) + Len(topicNames) <= MaxItems
    /\ Begin("subscribeQueueToTopics", topicNames, queueName,
             [k \in 1..Len(topicNames) |->
                 StartItem(topicNames[k], Len(topicNames) > 1, queueName)])

\* Item k of call id goes on as it.
ItemStep(id, k, it) ==
    /\ NoneOver
    /\ calls' = [calls EXCEPT ![id] =
                    Waterfall(Callback(EachLimit(
                        [@ EXCEPT !.items[k] = it])))]
    /\ completed' = IF /\ it.pc = "done"
                       /\ it.res = "ok"
                       /\ calls[id].stage = "subscribe"
                    THEN completed \cup {Key(it, calls[id].queueName)}
                    ELSE completed
    /\ UNCHANGED <<queues, firstDone, overlapped, restVars>>

JoinedWithoutCheck(it) ==
    IF it.tpc = "ok" /\ it.qpc = "ok"
    THEN [it EXCEPT !.pc = "subscribe", !.asked = TRUE]
    ELSE it

\* async.parallel's callback: with both ARNs, checkQueueAlreadySubscribed
\* sends its list request.
Joined(it) ==
    IF it.tpc = "ok" /\ it.qpc = "ok" THEN [it EXCEPT !.pc = "check"] ELSE it

\* queuedGetTopicArn calls back.  The look-up is the one of SpecArn, taken
\* here in one step: a cache hit, or a listing of all topics and the cache
\* filled from it.
TopicArnAnswers(id, k) ==
    /\ k <= Len(calls[id].items)
    /\ calls[id].items[k].pc = "arns"
    /\ calls[id].items[k].tpc = "wait"
    /\ LET it == calls[id].items[k]
       IN  /\ cachedTopicArns' =
                 IF Cached(cachedTopicArns, it.topicName)
                 THEN cachedTopicArns
                 ELSE CacheTopicArns(cachedTopicArns, InOrder(topics),
                                     environmentName)
           /\ ItemStep(id, k,
                 IF Cached(cachedTopicArns', it.topicName)
                 THEN Joined([it EXCEPT !.tpc = "ok",
                         !.topicArn = cachedTopicArns'[it.topicName]])
                 ELSE ItemDone(it, "notfound"))
    /\ UNCHANGED <<topics, environmentName, lookupVars, subs,
                   filterPolicies>>

\* getQueueArn calls back (its two requests, sqs.getQueueUrl and
\* sqs.getQueueAttributes, taken in one step).
QueueArnAnswers(id, k) ==
    /\ k <= Len(calls[id].items)
    /\ calls[id].items[k].pc = "arns"
    /\ calls[id].items[k].qpc = "wait"
    /\ LET it    == calls[id].items[k]
           qName == QualifiedQueueName(environmentName,
                        QueueTopicName(it.topicName, it.multi),
                        calls[id].queueName)
       IN  ItemStep(id, k,
                IF qName \notin DOMAIN queues
                THEN ItemDone(it, "nonexistent")
                ELSE Joined([it EXCEPT !.qpc = "ok",
                        !.queueArn = Attr(queues[qName].Attributes,
                                          "QueueArn")]))
    /\ UNCHANGED <<arnVars, subs, filterPolicies>>

\* sns.listSubscriptionsByTopic answers checkQueueAlreadySubscribed: with a
\* record of the queue subscribeQueueToTopic calls back with it, without one
\* it sends the subscribe request; setFilterForSubscription calls back
\* without one, and with one it sends the request that sets the attribute.
SnsListSubscriptionsByTopicOk(id, k) ==
    /\ k <= Len(calls[id].items)
    /\ calls[id].items[k].pc = "check"
    /\ LET it          == calls[id].items[k]
           data        == SnsListSubscriptionsByTopic(subs, it.topicArn)
           existingSub == ExistingSub(data, it.queueArn)
       IN  ItemStep(id, k,
                IF calls[id].stage = "filter"
                THEN IF existingSub = NoSub THEN ItemDone(it, "ok")
                     ELSE [it EXCEPT !.pc = "filter", !.sub = existingSub,
                                     !.asked = TRUE]
                ELSE IF existingSub # NoSub
                THEN [ItemDone(it, "ok") EXCEPT !.sub = existingSub]
                ELSE [it EXCEPT !.pc = "subscribe", !.asked = TRUE])
    /\ UNCHANGED <<arnVars, subs, filterPolicies>>

\* sns.subscribe answers.
SnsSubscribeOk(id, k) ==
    /\ k <= Len(calls[id].items)
    /\ calls[id].items[k].pc = "subscribe"
    /\ LET it == calls[id].items[k]
       IN  /\ subs' = SnsSubscribe(subs, it.topicArn, it.queueArn)
           /\ ItemStep(id, k,
                 [ItemDone(it, "ok") EXCEPT !.sub = subs'[Len(subs')]])
    /\ UNCHANGED <<arnVars, filterPolicies>>

\* A request of the item (or getClients before it) fails.
SnsFails(id, k) ==
    /\ k <= Len(calls[id].items)
    /\ calls[id].items[k].pc \in {"arns", "check", "subscribe", "filter",
                                  "create", "delete"}
    /\ ItemStep(id, k, ItemDone(calls[id].items[k], "provider"))
    /\ UNCHANGED <<arnVars, subs, filterPolicies>>

\* Two filters with a key of its own each.
FilterOne == << <<"kind", "x">> >>
FilterTwo == << <<"size", "y">> >>

MergeAttribute(attributes, subscriptionArn, value) ==
    [a \in DOMAIN attributes \cup {subscriptionArn} |->
        IF a = subscriptionArn /\ a \in DOMAIN attributes
        THEN attributes[a] \o value
        ELSE IF a = subscriptionArn THEN value ELSE attributes[a]]

\* sns.setSubscriptionAttributes(params) with AttributeName 'FilterPolicy':
\* the provider replaces the attribute's text.
SnsSetSubscriptionAttributes(attributes, subscriptionArn, value) ==
    [a \in DOMAIN attributes \cup {subscriptionArn} |->
        IF a = subscriptionArn THEN value ELSE attributes[a]]

\* setFilterForSubscription(topicName, isMultiTopic, queueName, filter, cb):
\* the two name checks, then the look-ups of async.parallel.
SetFilterForSubscription(topicName, isMultiTopic, queueName, filter) ==
    /\ NoneOver
    /\ \E i \in CallIds : calls[i].pc = "idle"
    /\ Cardinality(AllUnderWay) + 1 <= MaxItems
    /\ calls' = [calls EXCEPT ![NextCall] =
                    Callback([IdleCall EXCEPT
                        !.op = "setFilterForSubscription",
                        !.topicNames = <<topicName>>,
                        !.queueName = queueName, !.pc = "running",
                        !.items = <<StartItem(topicName, isMultiTopic,
                                              queueName)>>,
                        !.filter = filter, !.stage = "filter"])]
    /\ UNCHANGED <<arnVars, queues, firstDone, subVars, restVars>>

\* sns.setSubscriptionAttributes answers.
SnsSetSubscriptionAttributesOk(id, k) ==
    /\ k <= Len(calls[id].items)
    /\ calls[id].items[k].pc = "filter"
    /\ LET it == calls[id].items[k]
       IN  /\ filterPolicies' =
                 SnsSetSubscriptionAttributes(filterPolicies,
                     it.sub.SubscriptionArn, JsonStringify(calls[id].filter))
           /\ ItemStep(id, k,
                 [ItemDone(it, "ok") EXCEPT !.was =
                     IF it.sub.SubscriptionArn \in DOMAIN filterPolicies
                     THEN filterPolicies[it.sub.SubscriptionArn]
                     ELSE <<>>])
    /\ UNCHANGED <<arnVars, subs>>

\* The queue createQueue leaves when it succeeds.
Provisioned(qName, dlqName) ==
    [NewQueue(qName, QueueAttributes, "createQueue", 0) EXCEPT
        !.Attributes = SetAttrs(@, CreateQueueSets(QueueArnOf(qName),
                                                   QueueArnOf(dlqName))),
        !.returned = "ok"]

\* The dead letter queue createDeadLetterQueue leaves when it succeeds.
ProvisionedDlq(dlqName) ==
    [NewQueue(dlqName, DlqAttributes, "createDeadLetterQueue", 0) EXCEPT
        !.Attributes = SetAttrs(@, [Policy |->
                                       GetQueuePolicy(QueueArnOf(dlqName))]),
        !.returned = "ok"]

\* The queues after createQueue has succeeded for each name of qNames.
ProvisionedQueues(qNames) ==
    LET dlqName == QualifiedQueueName(ENV, DLQ_TOPIC_NAME, DLQ_QUEUE_NAME)
    IN  [n \in qNames \cup {dlqName} |->
            IF n = dlqName THEN ProvisionedDlq(dlqName)
            ELSE Provisioned(n, dlqName)]

TopicLists == {<<NameA>>, <<NameA, NameB>>, <<NameA, NameA>>}

\* The topics and queues are those earlier calls of createTopics and
\* createQueue have left.
InitSub ==
    /\ topics = {TopicArnOf(QualifiedTopicName(ENV, NameA)),
                 TopicArnOf(QualifiedTopicName(ENV, NameB))}
    /\ cachedTopicArns = EmptyCache
    /\ environmentName = ENV
    /\ arnQueue = <<>>
    /\ running = 0
    /\ lk = [i \in LookupIds |-> IdleLookup]
    /\ resolved = {}
    /\ submitted = <<>>
    /\ started = <<>>
    /\ delivered = <<>>
    /\ queues \in
          {ProvisionedQueues({QualifiedQueueName(ENV, NameA, NameQ),
                              QualifiedQueueName(ENV, MULTIPLE_TOPICS,
                                                 NameQ)}),
           ProvisionedQueues({QualifiedQueueName(ENV, NameA, NameQ)})}
    /\ calls = [i \in CallIds |-> IdleCall]
    /\ firstDone = NoQueues
    /\ subs = <<>>
    /\ overlapped = {}
    /\ completed = {}
    /\ InitRest

NextSub ==
    \/ \E t \in {NameA, BadName}, m \in BOOLEAN :
          SubscribeQueueToTopic(t, m, NameQ)
    \/ \E ts \in TopicLists : SubscribeQueueToTopics(ts, NameQ)
    \/ \E id \in CallIds, k \in 1..MaxItems : TopicArnAnswers(id, k)
    \/ \E id \in CallIds, k \in 1..MaxItems : QueueArnAnswers(id, k)
    \/ \E id \in CallIds, k \in 1..MaxItems : SnsListSubscriptionsByTopicOk(id, k)
    \/ \E id \in CallIds, k \in 1..MaxItems : SnsSubscribeOk(id, k)
    \/ \E id \in CallIds, k \in 1..MaxItems : SnsFails(id, k)
    \/ \E id \in CallIds : ForgetCall(id)

SpecSub == InitSub /\ [][NextSub]_vars

(***************************************************************************)
(* addToTopicPolicy                                                        *)
(***************************************************************************)
\* What the calls of addToTopicPolicy leave alone.
polOthers == <<topics, environmentName, lookupVars, provVars, subVars,
              opVars, evVars, logVars, nameVars, pureVars>>

NextEdit == CHOOSE i \in CallIds :
               /\ edits[i].pc = "idle"
               /\ \A j \in CallIds : edits[j].pc = "idle" => i <= j

\* The record of a call that has called back is dropped (ForgetEdit) before
\* anything else is taken up.
NoEditOver == \A i \in CallIds : edits[i].pc # "done"

EditDone(e, res) ==
    [e EXCEPT !.pc = "done", !.res = res, !.topicArn = <<>>,
              !.currentPolicy = <<>>]

\* Call id goes on as e.
EditStep(id, e) ==
    /\ NoEditOver
    /\ edits' = [edits EXCEPT ![id] = e]
    /\ added' = IF e.pc = "done" /\ e.res = "ok" /\ e.modifiedPolicy # <<>>
                THEN added \cup {<<e.topicName, JsonStringify(e.statement)>>}
                ELSE added

\* getTopicArn has called back with the ARN: getCurrentTopicPolicy sends its
\* request.
GetCurrentTopicPolicy(e, topicArn) ==
    [e EXCEPT !.pc = "get", !.topicArn = topicArn]

\* updateCurrentPolicy up to its request: with the statement in the policy
\* it calls back with the policy as read; without it the statement is pushed
\* and the policy sent.
UpdateCurrentPolicy(e) ==
    IF HasStatement(e.currentPolicy.Statement, e.statement)
    THEN [EditDone(e, "ok") EXCEPT !.modifiedPolicy = e.currentPolicy]
    ELSE [e EXCEPT !.pc = "set", !.asked = TRUE,
                   !.currentPolicy = Push(@, e.statement)]

\* addToTopicPolicy(topicName, statement, cb): without a topic name or a
\* statement it calls back at once, without error; the series begins with
\* getQualifiedTopicName (the name check; the environment name is known),
\* then getTopicArn, which answers from the cache or starts a listing.
AddToTopicPolicySeries(topicName, statement) ==
    /\ \E i \in CallIds : edits[i].pc = "idle"
    /\ LET e == [IdleEdit EXCEPT
                    !.topicName = topicName, !.statement = statement,
                    !.after =
                        <<topicName, JsonStringify(statement)>> \in added]
           n == IF topicName = <<>> \/ statement = <<>>
                THEN EditDone(e, "ok")
                ELSE IF ~IsValidTopicName(topicName)
                THEN EditDone(e, "invalid")
                ELSE IF Cached(cachedTopicArns, topicName)
                THEN GetCurrentTopicPolicy(e, cachedTopicArns[topicName])
                ELSE [e EXCEPT !.pc = "arn"]
       IN  /\ EditStep(NextEdit, n)
           /\ raced' = (raced \/ (n.pc # "done" /\
                           \E j \in CallIds : edits[j].pc # "idle"))
    /\ UNCHANGED <<topicPolicies, cachedTopicArns, polOthers>>

\* getTopicArn's listing is over and the cache filled from it (the look-up
\* of SpecArn, taken here in one step).
EditTopicArnAnswers(id) ==
    /\ edits[id].pc = "arn"
    /\ cachedTopicArns' = CacheTopicArns(cachedTopicArns, InOrder(topics),
                                         environmentName)
    /\ EditStep(id,
          IF Cached(cachedTopicArns', edits[id].topicName)
          THEN GetCurrentTopicPolicy(edits[id],
                   cachedTopicArns'[edits[id].topicName])
          ELSE EditDone(edits[id], "notfound"))
    /\ UNCHANGED <<topicPolicies, raced, polOthers>>

\* sns.getTopicAttributes answers getCurrentTopicPolicy, and
\* updateCurrentPolicy runs in the same turn.
SnsGetTopicAttributesOk(id) ==
    /\ edits[id].pc = "get"
    /\ LET e             == edits[id]
           currentPolicy == topicPolicies[e.topicArn]
       IN  EditStep(id,
                IF currentPolicy = <<>> THEN EditDone(e, "nopolicy")
                ELSE IF ~JsonParses(currentPolicy) THEN EditDone(e, "parse")
                ELSE UpdateCurrentPolicy(
                        [e EXCEPT !.currentPolicy =
                                      JsonParsePolicy(currentPolicy)]))
    /\ UNCHANGED <<topicPolicies, raced, cachedTopicArns, polOthers>>

\* sns.setTopicAttributes answers updateCurrentPolicy.
SnsSetTopicAttributesOk(id) ==
    /\ edits[id].pc = "set"
    /\ LET e == edits[id]
       IN  /\ topicPolicies' =
                 SnsSetTopicAttributes(topicPolicies, e.topicArn,
                     JsonStringifyPolicy(e.currentPolicy))
           /\ EditStep(id, [EditDone(e, "ok") EXCEPT
                               !.modifiedPolicy = e.currentPolicy])
    /\ UNCHANGED <<raced, cachedTopicArns, polOthers>>

\* A request of the call (or getClients before it) fails.
EditFails(id) ==
    /\ edits[id].pc \in {"arn", "get", "set"}
    /\ EditStep(id, EditDone(edits[id], "provider"))
    /\ UNCHANGED <<topicPolicies, raced, cachedTopicArns, polOthers>>

\* The caller has consumed the result: the call's record is dropped.
ForgetEdit(id) ==
    /\ edits[id].pc = "done"
    /\ edits' = [edits EXCEPT ![id] = IdleEdit]
    /\ UNCHANGED <<topicPolicies, added, raced, cachedTopicArns, polOthers>>

EditArgs ==
    {<<NameA, s>> : s \in {StatementA, StatementAkeys, StatementB}}
        \cup {<<BadName, StatementA>>, <<NameB, StatementA>>,
              <<Unset, StatementA>>, <<NameA, <<>>>>}

\* The policies a topic starts with: the provider's default, one that already
\* holds a statement, and none.
InitialPolicies ==
    {JsonStringifyPolicy([Statement |-> <<DefaultStatement>>]),
     JsonStringifyPolicy([Statement |-> <<DefaultStatement, StatementA>>]),
     <<>>}

InitPolicy ==
    /\ topics = {TopicArnOf(QualifiedTopicName(ENV, NameA))}
    /\ cachedTopicArns = EmptyCache
    /\ environmentName = ENV
    /\ arnQueue = <<>>
    /\ running = 0
    /\ lk = [i \in LookupIds |-> IdleLookup]
    /\ resolved = {}
    /\ submitted = <<>>
    /\ started = <<>>
    /\ delivered = <<>>
    /\ queues = NoQueues
    /\ calls = [i \in CallIds |-> IdleCall]
    /\ firstDone = NoQueues
    /\ subs = <<>>
    /\ overlapped = {}
    /\ completed = {}
    /\ topicPolicies \in [topics -> InitialPolicies]
    /\ edits = [i \in CallIds |-> IdleEdit]
    /\ added = {}
    /\ raced = FALSE
    /\ filterPolicies = [a \in {} |-> <<>>]
    /\ published = {}
    /\ saved = {}
    /\ event = <<>>
    /\ messageAttributes = NotConverted
    /\ logged = {}
    /\ passed = {}
    /\ deployment = <<ENV, ServiceName, <<>> >>
    /\ serviceName = ServiceName
    /\ named = {}
    /\ input = <<>>
    /\ output = NoOutput

NextPolicy ==
    \/ \E a \in EditArgs : AddToTopicPolicySeries(a[1], a[2])
    \/ \E id \in CallIds : EditTopicArnAnswers(id)
    \/ \E id \in CallIds : SnsGetTopicAttributesOk(id)
    \/ \E id \in CallIds : SnsSetTopicAttributesOk(id)
    \/ \E id \in CallIds : EditFails(id)
    \/ \E id \in CallIds : ForgetEdit(id)

SpecPolicy == InitPolicy /\ [][NextPolicy]_vars

(***************************************************************************)
(* The operations on one topic or one queue                                *)
(***************************************************************************)
\* The operations whose code is one chain of requests.
ChainOps == {"createTopic", "deleteTopic", "deleteQueue", "getQueueUrl",
             "getQueueArn", "publishMessageToTopic", "sendMessageToQueue",
             "getTopicArn"}

\* The publish operations that take an event and no callback: each ends in
\* publishMessageToTopic, with a callback of its own.
EventOps == {"publishEventToTopic", "publishEventToServiceTopic"}

ChainSavingFirst(op) ==
    IF op = "publishMessageToTopic"
    THEN <<"arn", "db.getCollection", "coll.insertOne", "sns.publish">>
    ELSE <<"arn">>

\* The requests of an operation, in the order its code sends them when each
\* one succeeds.  "env": getEnvironmentName's remote look-up, which
\* getQualifiedTopicName reaches for createTopic and, through getQueueUrl and
\* getQualifiedQueueName, for the operations on a queue; "arn": the listing
\* of queuedGetTopicArn.  Neither is sent when the name is already known.
Chain(op) ==
    CASE op = "createTopic"           -> <<"env", "sns.createTopic">>
      [] op = "deleteTopic"           -> <<"arn", "sns.deleteTopic">>
      [] op = "deleteQueue"           ->
            <<"env", "sqs.getQueueUrl", "sqs.deleteQueue">>
      [] op = "getQueueUrl"           -> <<"env", "sqs.getQueueUrl">>
      [] op = "getQueueArn"           ->
            <<"env", "sqs.getQueueUrl", "sqs.getQueueAttributes">>
      [] op = "publishMessageToTopic" ->
            <<"arn", "sns.publish", "db.getCollection", "coll.insertOne">>
      [] op = "sendMessageToQueue"    ->
            <<"env", "sqs.getQueueUrl", "sqs.sendMessage">>
      [] op = "getTopicArn"           -> <<"arn">>
      [] op \in EventOps              ->
            <<"arn", "sns.publish", "db.getCollection", "coll.insertOne">>

\* The operations that take a queue name and check it.
TakesQueueName(op) ==
    op \in {"deleteQueue", "getQueueUrl", "getQueueArn",
            "sendMessageToQueue"}

AnyNames(op, topicName, queueName) == TRUE

\* The name checks every operation begins with (getQueueArn makes them in
\* getQueueUrl, which it calls first).
NamesAreValid(op, topicName, queueName) ==
    /\ IsValidTopicName(topicName)
    /\ TakesQueueName(op) => IsValidQueueName(queueName)

\* process.env.topicAccountPermissions names these topics.
TopicAccountPermissions == {NameB}

\* message || 'No message provided.'
NoMessage == <<"No message provided.">>
MessageOrDefault(message) == IF message = <<>> THEN NoMessage ELSE message

\* JSON.parse(message) does not throw
MessageParses(message) ==
    /\ Len(message) >= 2
    /\ message[1] = "{"
    /\ message[Len(message)] = "}"

\* The call runs on to its next request, or to its callback when no request
\* is left.  eName, cache: the environment name and the ARN cache.
RECURSIVE RunOn(_, _, _)
RunOn(c, eName, cache) ==
    IF c.todo = <<>> THEN Fail(c, "ok")
    ELSE IF Head(c.todo) = "env" /\ eName # Unset
    THEN RunOn([c EXCEPT !.todo = Tail(@)], eName, cache)
    ELSE IF Head(c.todo) = "arn" /\ Cached(cache, c.topicName)
    THEN RunOn([c EXCEPT !.todo = Tail(@), !.arn = cache[c.topicName]],
               eName, cache)
    ELSE [c EXCEPT !.pc = "request"]

PassErrorOn(topicName, res) ==
    IF res = "ok" THEN <<{}, {}>> ELSE <<{}, {<<topicName, res>>}>>

\* The callback publishEventToTopic gives publishMessageToTopic: what it
\* has logger.error write, and what it passes on to the caller of
\* publishEventToTopic.
LogPublishError(topicName, res) ==
    IF res = "ok" THEN <<{}, {}>> ELSE <<{<<topicName, res>>}, {}>>

\* Call id goes on as c.  Of a call that has returned the requests that
\* were not answered without an error, the one that failed and those not
\* sent, are kept as well.  A call of EventOps that has come to the
\* callback of publishMessageToTopic runs the callback it gave.
ChainStep(id, c) ==
    /\ NoneOver
    /\ calls' = [calls EXCEPT ![id] =
                    IF c.pc = "done"
                    THEN [Settled(c) EXCEPT !.todo = c.todo]
                    ELSE c]
    /\ LET out == LogPublishError(c.topicName, c.res)
       IN  IF c.pc = "done" /\ c.op \in EventOps
           THEN logged' = out[1] /\ passed' = passed \cup out[2]
           ELSE UNCHANGED <<logged, passed>>

\* No call is under way: the operations are taken one at a time.
Quiet ==
    /\ \A i \in CallIds : calls[i].pc = "idle"
    /\ \A i \in LookupIds : lk[i].pc = "idle"
    /\ arnQueue = <<>>

\* An operation of ChainOps is called: the name checks, then its code up to
\* the first request.
Call(op, topicName, queueName, message) ==
    /\ Quiet
    /\ LET c == [IdleCall EXCEPT
                    !.op = op, !.topicName = topicName,
                    !.queueName = queueName,
                    !.message = IF op = "publishMessageToTopic"
                                THEN MessageOrDefault(message)
                                ELSE message,
                    !.todo = Chain(op)]
       IN  ChainStep(NextCall,
                IF ~NamesAreValid(op, topicName, queueName)
                THEN Fail(c, "invalid")
                ELSE RunOn(c, environmentName, cachedTopicArns))
    /\ UNCHANGED <<arnVars, queues, firstDone, subVars, polVars, opVars,
                   evVars, nameVars, pureVars>>

\* The request the call waits for is answered.
RequestOk(id) ==
    /\ calls[id].pc = "request"
    /\ LET c     == calls[id]
           st    == Head(c.todo)
           rest  == [c EXCEPT !.todo = Tail(@)]
           qName == QualifiedQueueName(ENV, c.topicName, c.queueName)
       IN  /\ ~(st = "sns.deleteTopic" /\ c.arn = <<>>)
           /\ ~(st = "sns.publish" /\ c.arn \notin topics)
           /\ environmentName' = IF st \in {"env", "arn"} THEN ENV
                                 ELSE environmentName
           /\ cachedTopicArns' =
                 IF st = "arn"
                 THEN CacheTopicArns(cachedTopicArns, InOrder(topics), ENV)
                 ELSE cachedTopicArns
           /\ topics' =
                 IF st = "sns.createTopic"
                 THEN topics \cup
                        {TopicArnOf(QualifiedTopicName(ENV, c.topicName))}
                 ELSE IF st = "sns.deleteTopic" THEN topics \ {c.arn}
                 ELSE topics
           /\ queues' =
                 IF st = "sqs.deleteQueue"
                 THEN [n \in (DOMAIN queues) \ {NameOfUrl(c.queueUrl)} |->
                          queues[n]]
                 ELSE queues
           /\ published' =
                 IF st = "sns.publish"
                 THEN published \cup {<<c.arn, c.message>>}
                 ELSE published
           /\ saved' = IF st = "coll.insertOne"
                       THEN saved \cup {JsonParse(c.message)}
                       ELSE saved
           /\ ChainStep(id,
                 CASE st = "arn" ->
                        IF Cached(cachedTopicArns', c.topicName)
                        THEN RunOn([rest EXCEPT
                                 !.arn = cachedTopicArns'[c.topicName]],
                               ENV, cachedTopicArns')
                        ELSE IF c.op = "deleteTopic"
                        THEN RunOn(rest, ENV, cachedTopicArns')
                        ELSE Fail(c, "notfound")
                   [] st = "sns.createTopic" ->
                        IF c.topicName \in TopicAccountPermissions
                        THEN [c EXCEPT !.todo = <<"sns.addPermission">>]
                        ELSE RunOn(rest, ENV, cachedTopicArns)
                   [] st = "sqs.getQueueUrl" ->
                        IF qName \in DOMAIN queues
                        THEN RunOn([rest EXCEPT
                                       !.queueUrl = QueueUrlOf(qName)],
                                   ENV, cachedTopicArns)
                        ELSE Fail(c, "nonexistent")
                   [] st = "sqs.getQueueAttributes" ->
                        RunOn([rest EXCEPT !.arn =
                                  Attr(queues[NameOfUrl(c.queueUrl)]
                                          .Attributes, "QueueArn")],
                              ENV, cachedTopicArns)
                   [] st = "sns.publish" ->
                        IF MessageParses(c.message)
                        THEN RunOn(rest, ENV, cachedTopicArns)
                        ELSE Fail(c, "thrown")
                   [] OTHER -> RunOn(rest, ENV, cachedTopicArns))
    /\ UNCHANGED <<lookupVars, firstDone, subVars, polVars, filterPolicies,
                   evVars, nameVars, pureVars>>

\* The request the call waits for (or getClients before it) fails, and the
\* error goes to the callback; but deleteTopic goes on without looking at the
\* error of its look-up, and createTopic passes its callback the error of
\* the create request, which is none, when the permission request fails.
RequestFails(id) ==
    /\ calls[id].pc = "request"
    /\ LET c  == calls[id]
           st == Head(c.todo)
       IN  ChainStep(id,
              IF st = "arn" /\ c.op = "deleteTopic"
              THEN RunOn([c EXCEPT !.todo = Tail(@)], environmentName,
                         cachedTopicArns)
              ELSE IF st = "sns.addPermission" THEN Fail(c, "ok")
              ELSE IF st = "env" THEN Fail(c, "enverr")
              ELSE IF st \in {"db.getCollection", "coll.insertOne"}
              THEN Fail(c, "db")
              ELSE Fail(c, "provider"))
    /\ UNCHANGED <<arnVars, queues, firstDone, subVars, polVars, opVars,
                   evVars, nameVars, pureVars>>

\* A name longer than the check allows.
LongName(n) == [i \in 1..(n + 1) |-> "a"]

Message == JsonStringify(<< <<"event", "e">> >>)

\* The arguments the operations are called with: valid names, and names
\* that are absent, of a character outside the pattern, or too long.
TopicArgs == {NameA, BadName, <<>>, LongName(TopicNameMax)}
QueueArgs ==
    {<<NameA, NameQ>>}
        \cup {<<t, NameQ>> : t \in TopicArgs}
        \cup {<<NameA, q>> : q \in {BadName, <<>>, LongName(QueueNameMax)}}

ChainArgs ==
    {<<op, a[1], a[2], <<>> >> :
        op \in {o \in ChainOps : TakesQueueName(o)}, a \in QueueArgs}
      \cup {<<op, t, <<>>, <<>> >> :
              op \in {"createTopic", "deleteTopic", "getTopicArn"},
              t \in TopicArgs}
      \cup {<<"createTopic", NameB, <<>>, <<>> >>}
      \cup {<<"publishMessageToTopic", t, <<>>, m>> :
              t \in TopicArgs, m \in {Message, <<>>}}

\* The names pass the checks of createQueue, subscribeQueueToTopic and
\* setFilterForSubscription.
BothValid(a) == IsValidTopicName(a[1]) /\ IsValidQueueName(a[2])

InitOps ==
    /\ topics = {TopicArnOf(QualifiedTopicName(ENV, NameA))}
    /\ cachedTopicArns = EmptyCache
    /\ environmentName \in {Unset, ENV}
    /\ arnQueue = <<>>
    /\ running = 0
    /\ lk = [i \in LookupIds |-> IdleLookup]
    /\ resolved = {}
    /\ submitted = <<>>
    /\ started = <<>>
    /\ delivered = <<>>
    /\ queues = ProvisionedQueues({QualifiedQueueName(ENV, NameA, NameQ)})
    /\ calls = [i \in CallIds |-> IdleCall]
    /\ firstDone = NoQueues
    /\ subs = <<>>
    /\ overlapped = {}
    /\ completed = {}
    /\ InitRest

\* The calls are taken one at a time; createQueue, subscribeQueueToTopic and
\* setFilterForSubscription go on past their name checks with the
\* environment name known, as in SpecQueue and SpecSub.
NextOps ==
    \/ \E a \in ChainArgs : Call(a[1], a[2], a[3], a[4])
    \/ \E id \in CallIds : RequestOk(id)
    \/ \E id \in CallIds : RequestFails(id)
    \/ \E a \in QueueArgs :
          /\ Quiet
          /\ BothValid(a) => environmentName # Unset
          /\ \/ CreateQueue(a[1], a[2])
             \/ SubscribeQueueToTopic(a[1], FALSE, a[2])
             \/ \E f \in {FilterOne, FilterTwo} :
                   SetFilterForSubscription(a[1], FALSE, a[2], f)
    \/ \E id \in CallIds : SqsCreateQueueOk(id)
    \/ \E id \in CallIds : SqsGetQueueUrlOk(id)
    \/ \E id \in CallIds : SqsGetQueueAttributesOk(id)
    \/ \E id \in CallIds : SqsSetQueueAttributesOk(id)
    \/ \E id \in CallIds : SqsFails(id)
    \/ \E id \in CallIds, k \in 1..MaxItems : TopicArnAnswers(id, k)
    \/ \E id \in CallIds, k \in 1..MaxItems : QueueArnAnswers(id, k)
    \/ \E id \in CallIds, k \in 1..MaxItems :
          SnsListSubscriptionsByTopicOk(id, k)
    \/ \E id \in CallIds, k \in 1..MaxItems : SnsSubscribeOk(id, k)
    \/ \E id \in CallIds, k \in 1..MaxItems :
          SnsSetSubscriptionAttributesOk(id, k)
    \/ \E id \in CallIds, k \in 1..MaxItems : SnsFails(id, k)
    \/ \E id \in CallIds : ForgetCall(id)

SpecOps == InitOps /\ [][NextOps]_vars

(***************************************************************************)
(* createSubscription                                                      *)
(***************************************************************************)
\* createSubscription(subscription, cb): createTopics refuses an absent or
\* empty array, and else async.map begins a createTopic for every name in
\* the same turn.
CreateSubscription(topicNames, queueName, filter) ==
    /\ Quiet
    /\ LET c == [IdleCall EXCEPT
                    !.op = "createSubscription", !.topicNames = topicNames,
                    !.queueName = queueName, !.filter = filter,
                    !.stage = "topics"]
       IN  calls' = [calls EXCEPT ![NextCall] =
                IF topicNames = <<>> THEN Fail(c, "noarray")
                ELSE Waterfall(Callback([c EXCEPT
                         !.pc = "running",
                         !.items = [k \in 1..Len(topicNames) |->
                                       StartTopic(topicNames[k])]]))]
    /\ UNCHANGED <<arnVars, queues, firstDone, subVars, restVars>>

\* sns.createTopic answers: with no permissions configured for the topic
\* createTopic calls back with the ARN, else it sends sns.addPermission.
SnsCreateTopicOk(id, k) ==
    /\ k <= Len(calls[id].items)
    /\ calls[id].items[k].pc = "create"
    /\ LET it  == calls[id].items[k]
           arn == TopicArnOf(QualifiedTopicName(environmentName, it.topicName))
       IN  /\ topics' = topics \cup {arn}
           /\ ItemStep(id, k,
                 IF it.topicName \in TopicAccountPermissions
                 THEN [it EXCEPT !.pc = "permission", !.topicArn = arn]
                 ELSE ItemDone(it, "ok"))
    /\ UNCHANGED <<cachedTopicArns, environmentName, lookupVars, subs,
                   filterPolicies>>

\* sns.addPermission answers, with or without an error: createTopic passes
\* its callback the error of the create request, which is none.
SnsAddPermissionAnswers(id, k) ==
    /\ k <= Len(calls[id].items)
    /\ calls[id].items[k].pc = "permission"
    /\ ItemStep(id, k, ItemDone(calls[id].items[k], "ok"))
    /\ UNCHANGED <<arnVars, subs, filterPolicies>>

Filters == {<<>>, FilterOne}

\* The descriptors: of one topic, of two in either order, with an invalid
\* name, without topic names.
Descriptors ==
    ({<<NameA>>, <<NameA, NameB>>, <<NameB, NameA>>} \X {NameQ} \X Filters)
      \cup {<< <<NameA>>, BadName, <<>> >>,
            << <<NameA, BadName>>, NameQ, <<>> >>,
            << <<BadName>>, NameQ, <<>> >>,
            << <<>>, NameQ, <<>> >>}

\* The provider holds no topic, no queue and no subscription.
InitCreate ==
    /\ topics = {}
    /\ cachedTopicArns = EmptyCache
    /\ environmentName = ENV
    /\ arnQueue = <<>>
    /\ running = 0
    /\ lk = [i \in LookupIds |-> IdleLookup]
    /\ resolved = {}
    /\ submitted = <<>>
    /\ started = <<>>
    /\ delivered = <<>>
    /\ queues = NoQueues
    /\ calls = [i \in CallIds |-> IdleCall]
    /\ firstDone = NoQueues
    /\ subs = <<>>
    /\ overlapped = {}
    /\ completed = {}
    /\ InitRest

NextCreate ==
    \/ \E d \in Descriptors : CreateSubscription(d[1], d[2], d[3])
    \/ \E id \in CallIds, k \in 1..MaxItems : SnsCreateTopicOk(id, k)
    \/ \E id \in CallIds, k \in 1..MaxItems : SnsAddPermissionAnswers(id, k)
    \/ \E id \in CallIds : SqsCreateQueueOk(id)
    \/ \E id \in CallIds : SqsGetQueueUrlOk(id)
    \/ \E id \in CallIds : SqsGetQueueAttributesOk(id)
    \/ \E id \in CallIds : SqsSetQueueAttributesOk(id)
    \/ \E id \in CallIds : SqsFails(id)
    \/ \E id \in CallIds, k \in 1..MaxItems : TopicArnAnswers(id, k)
    \/ \E id \in CallIds, k \in 1..MaxItems : QueueArnAnswers(id, k)
    \/ \E id \in CallIds, k \in 1..MaxItems :
          SnsListSubscriptionsByTopicOk(id, k)
    \/ \E id \in CallIds, k \in 1..MaxItems : SnsSubscribeOk(id, k)
    \/ \E id \in CallIds, k \in 1..MaxItems :
          SnsSetSubscriptionAttributesOk(id, k)
    \/ \E id \in CallIds, k \in 1..MaxItems : SnsFails(id, k)
    \/ \E id \in CallIds : ForgetCall(id)

SpecCreate == InitCreate /\ [][NextCreate]_vars

(***************************************************************************)
(* The operations on an array of names                                     *)
(***************************************************************************)
\* The argument of a batch operation: what it is ("array", "undefined",
\* "string"), and its entries.
IsArray(names) == names[1] = "array"

\* !(!names || !ld.isArray(names) || ld.isEmpty(names))
IsNonEmptyArray(names) == names[1] = "array" /\ names[2] # <<>>

\* createTopics(names, cb), deleteTopics(names, cb): with an array of names
\* async.map calls the operation for every name in the same turn.  The
\* call keeps, as its stage, what the argument was.
BatchOfTopics(op, names) ==
    /\ Quiet
    /\ LET c == [IdleCall EXCEPT !.op = op, !.topicNames = names[2],
                                 !.stage = names[1]]
       IN  calls' = [calls EXCEPT ![NextCall] =
                IF ~IsNonEmptyArray(names) THEN Fail(c, "noarray")
                ELSE Callback([c EXCEPT
                         !.pc = "running",
                         !.items = [k \in 1..Len(names[2]) |->
                                       IF op = "createTopics"
                                       THEN StartTopic(names[2][k])
                                       ELSE StartDelete(names[2][k])]])]
    /\ UNCHANGED <<arnVars, queues, firstDone, subVars, restVars>>

CreateTopics(names) == BatchOfTopics("createTopics", names)

DeleteTopics(names) == BatchOfTopics("deleteTopics", names)

\* queuedGetTopicArn calls deleteTopic's callback, which goes on to the
\* delete request with the ARN it was given: none when the topic was not
\* found.
DeleteLookupAnswers(id, k) ==
    /\ k <= Len(calls[id].items)
    /\ calls[id].items[k].pc = "lookup"
    /\ LET it == calls[id].items[k]
       IN  /\ cachedTopicArns' =
                 IF Cached(cachedTopicArns, it.topicName)
                 THEN cachedTopicArns
                 ELSE CacheTopicArns(cachedTopicArns, InOrder(topics),
                                     environmentName)
           /\ ItemStep(id, k,
                 [it EXCEPT !.pc = "delete", !.asked = TRUE,
                            !.topicArn =
                               IF Cached(cachedTopicArns', it.topicName)
                               THEN cachedTopicArns'[it.topicName]
                               ELSE <<>>])
    /\ UNCHANGED <<topics, environmentName, lookupVars, subs,
                   filterPolicies>>

\* The look-up fails: the callback does not read the error and goes on.
DeleteLookupFails(id, k) ==
    /\ k <= Len(calls[id].items)
    /\ calls[id].items[k].pc = "lookup"
    /\ ItemStep(id, k, [calls[id].items[k] EXCEPT
                           !.pc = "delete", !.asked = TRUE])
    /\ UNCHANGED <<arnVars, subs, filterPolicies>>

\* sns.deleteTopic answers a request that names a topic.
SnsDeleteTopicOk(id, k) ==
    /\ k <= Len(calls[id].items)
    /\ calls[id].items[k].pc = "delete"
    /\ calls[id].items[k].topicArn # <<>>
    /\ topics' = topics \ {calls[id].items[k].topicArn}
    /\ ItemStep(id, k, ItemDone(calls[id].items[k], "ok"))
    /\ UNCHANGED <<cachedTopicArns, environmentName, lookupVars, subs,
                   filterPolicies>>

\* String(callback): the text of a function
FunctionText == <<"function", " ", "(", "err", ")">>

\* The name checks of createQueue(topicName, queueName, cb) and of
\* deleteQueue: a name that fails is reported by calling cb, which throws a
\* TypeError when cb is undefined.
QueueNameChecks(topicName, queueName, cbIsFunction) ==
    IF IsValidTopicName(topicName) /\ IsValidQueueName(queueName)
    THEN "ok"
    ELSE IF cbIsFunction THEN "invalid" ELSE "thrown"

\* createQueues(names, cb), deleteQueues(names, cb): async.map calls
\* createQueue (deleteQueue) with a name and its own callback, which are
\* taken for topicName and queueName, and cb is undefined.  What createQueue
\* throws leaves async.map and the batch operation.
BatchOfQueues(op, names) ==
    /\ Quiet
    /\ LET c == [IdleCall EXCEPT !.op = op, !.topicNames = names[2],
                                 !.stage = names[1]]
           checks == QueueNameChecks(names[2][1], FunctionText, FALSE)
       IN  calls' = [calls EXCEPT ![NextCall] =
                IF ~IsNonEmptyArray(names) THEN Fail(c, "noarray")
                ELSE IF checks # "ok" THEN Fail(c, checks)
                ELSE [c EXCEPT !.pc = "create",
                               !.topicName = names[2][1],
                               !.queueName = FunctionText]]
    /\ UNCHANGED <<arnVars, queues, firstDone, subVars, restVars>>

CreateQueues(names) == BatchOfQueues("createQueues", names)

DeleteQueues(names) == BatchOfQueues("deleteQueues", names)

\* suffix.trim().length < 1 ? getServiceName()
\*                          : getServiceName() + '-' + suffix
ServiceTopicOf(suffix) ==
    IF Len(Trim(suffix)) < 1 THEN ServiceName
    ELSE ServiceName \o <<"-">> \o suffix

\* ld.uniq(array): the first occurrence of each entry, in order
RECURSIVE Uniq(_)
Uniq(array) ==
    IF array = <<>> THEN <<>>
    ELSE LET front == Uniq(SubSeq(array, 1, Len(array) - 1))
             last  == array[Len(array)]
         IN  IF \E i \in 1..Len(front) : front[i] = last THEN front
             ELSE Append(front, last)

\* createServiceTopics(suffixes, cb)
CreateServiceTopics(suffixes) ==
    /\ Quiet
    /\ LET serviceSuffixes ==
              Uniq([k \in 1..Len(suffixes) |-> ServiceTopicOf(suffixes[k])])
           c == [IdleCall EXCEPT !.op = "createServiceTopics",
                                 !.topicNames = suffixes]
       IN  calls' = [calls EXCEPT ![NextCall] =
                IF suffixes = <<>> THEN Fail(c, "ok")
                ELSE Callback(EachLimit([c EXCEPT
                         !.pc = "running",
                         !.items = [k \in 1..Len(serviceSuffixes) |->
                                       Waiting(serviceSuffixes[k])]]))]
    /\ UNCHANGED <<arnVars, queues, firstDone, subVars, restVars>>

\* The arguments: arrays of at most MaxItems names, no array, and a string.
NameArrays ==
    {<<"array", a>> : a \in {<<>>, <<NameA>>, <<NameA, NameB>>,
                             <<NameB, NameA>>, <<BadName, NameA>>,
                             <<NameA, BadName>>}}
        \cup {<<"undefined", <<>> >>, <<"string", NameA>>}

SuffixLists ==
    {<<>>, << <<>> >>, << <<"x">> >>, << <<>>, <<"x">> >>,
     << <<"x">>, <<>> >>, << <<"x">>, <<"x">> >>, << <<>>, <<" ">> >>,
     << <<"x">>, <<"y">> >>, << <<" ", "x">>, <<"y">> >>}

\* The provider holds topic a.
InitBatch ==
    /\ topics = {TopicArnOf(QualifiedTopicName(ENV, NameA))}
    /\ cachedTopicArns = EmptyCache
    /\ environmentName = ENV
    /\ arnQueue = <<>>
    /\ running = 0
    /\ lk = [i \in LookupIds |-> IdleLookup]
    /\ resolved = {}
    /\ submitted = <<>>
    /\ started = <<>>
    /\ delivered = <<>>
    /\ queues = NoQueues
    /\ calls = [i \in CallIds |-> IdleCall]
    /\ firstDone = NoQueues
    /\ subs = <<>>
    /\ overlapped = {}
    /\ completed = {}
    /\ InitRest

NextBatch ==
    \/ \E names \in NameArrays : CreateTopics(names)
    \/ \E names \in NameArrays : DeleteTopics(names)
    \/ \E names \in NameArrays : CreateQueues(names)
    \/ \E names \in NameArrays : DeleteQueues(names)
    \/ \E suffixes \in SuffixLists : CreateServiceTopics(suffixes)
    \/ \E id \in CallIds, k \in 1..MaxItems : SnsCreateTopicOk(id, k)
    \/ \E id \in CallIds, k \in 1..MaxItems : SnsAddPermissionAnswers(id, k)
    \/ \E id \in CallIds, k \in 1..MaxItems : DeleteLookupAnswers(id, k)
    \/ \E id \in CallIds, k \in 1..MaxItems : DeleteLookupFails(id, k)
    \/ \E id \in CallIds, k \in 1..MaxItems : SnsDeleteTopicOk(id, k)
    \/ \E id \in CallIds, k \in 1..MaxItems : SnsFails(id, k)
    \/ \E id \in CallIds : ForgetCall(id)

SpecBatch == InitBatch /\ [][NextBatch]_vars

(***************************************************************************)
(* Events: their message attributes, and the publish paths without a       *)
(* callback                                                                *)
(***************************************************************************)
\* publishEventToTopic(topicName, event): the text and the attributes of the
\* event, then publishMessageToTopic with them.
PublishEvent(op, topicName) ==
    /\ Quiet
    /\ messageAttributes' = ConvertEventToMessageAttributes(event)
    /\ LET c == [IdleCall EXCEPT
                    !.op = op, !.topicName = topicName,
                    !.message = MessageOrDefault(EventJson(event)),
                    !.todo = Chain(op)]
       IN  ChainStep(NextCall,
                IF ~IsValidTopicName(topicName)
                THEN Fail(c, "invalid")
                ELSE RunOn(c, environmentName, cachedTopicArns))
    /\ UNCHANGED <<arnVars, queues, firstDone, subVars, polVars, opVars,
                   event, nameVars, pureVars>>

PublishEventToTopic(topicName) ==
    PublishEvent("publishEventToTopic", topicName)

\* publishEventToServiceTopic(event, topicSuffix), which publishServiceEvent
\* and, with no suffix, publishAppUpdateEvent come to
PublishEventToServiceTopic(topicSuffix) ==
    PublishEvent("publishEventToServiceTopic", ServiceTopicName(topicSuffix))

\* convertEventToMessageAttributes(event), called by itself
ConvertEvent ==
    /\ Quiet
    /\ messageAttributes' = ConvertEventToMessageAttributes(event)
    /\ UNCHANGED <<arnVars, provVars, subVars, polVars, opVars, event,
                   logVars, nameVars, pureVars>>

\* The values of the properties of the events.
MaxNumber == 12

Values ==
    {Undefined, Null, Bool(TRUE), Number(0), Number(5), Number(MaxNumber),
     String(<<>>), String(<<"x">>), Object(1), Array(0)}

\* The events: objects of at most two properties.
Events ==
    {<<>>}
        \cup {<< <<"a", v>> >> : v \in Values}
        \cup {<< <<"a", v>>, <<"b", w>> >> :
                 v \in Values, w \in {Number(5), String(<<"x">>)}}

Suffixes == {<<>>, <<" ">>, <<"x">>, <<" ", "x">>}

InitEvent ==
    /\ topics = {TopicArnOf(QualifiedTopicName(ENV, NameA)),
                 TopicArnOf(QualifiedTopicName(ENV, ServiceName))}
    /\ cachedTopicArns = EmptyCache
    /\ environmentName = ENV
    /\ arnQueue = <<>>
    /\ running = 0
    /\ lk = [i \in LookupIds |-> IdleLookup]
    /\ resolved = {}
    /\ submitted = <<>>
    /\ started = <<>>
    /\ delivered = <<>>
    /\ queues = NoQueues
    /\ calls = [i \in CallIds |-> IdleCall]
    /\ firstDone = NoQueues
    /\ subs = <<>>
    /\ overlapped = {}
    /\ completed = {}
    /\ topicPolicies = [a \in {} |-> <<>>]
    /\ edits = [i \in CallIds |-> IdleEdit]
    /\ added = {}
    /\ raced = FALSE
    /\ filterPolicies = [a \in {} |-> <<>>]
    /\ published = {}
    /\ saved = {}
    /\ event \in Events
    /\ messageAttributes = NotConverted
    /\ logged = {}
    /\ passed = {}
    /\ deployment = <<ENV, ServiceName, <<>> >>
    /\ serviceName = ServiceName
    /\ named = {}
    /\ input = <<>>
    /\ output = NoOutput

NextEvent ==
    \/ ConvertEvent
    \/ \E t \in {NameA, NameB, BadName} : PublishEventToTopic(t)
    \/ \E x \in Suffixes : PublishEventToServiceTopic(x)
    \/ \E id \in CallIds : RequestOk(id)
    \/ \E id \in CallIds : RequestFails(id)
    \/ \E id \in CallIds : ForgetCall(id)

SpecEvent == InitEvent /\ [][NextEvent]_vars

(***************************************************************************)
(* Qualified names                                                         *)
(***************************************************************************)
TruncateEachTime(str, limit, to) ==
    IF Len(str) > 1 THEN SubSeq(str, 1, Len(str) - 1) ELSE str

\* if (str.length > limit) str = str.substring(0, to)
Truncate(str, limit, to) ==
    IF Len(str) > limit THEN SubSeq(str, 1, to) ELSE str

EnvironmentNameMax == 12
ServiceNameMax     == 24

SERVICE_NAME_UNKNOWN ==
    <<"S", "E", "R", "V", "I", "C", "E", "_", "N", "A", "M", "E", "_",
      "U", "N", "K", "N", "O", "W", "N">>

\* getServiceName(): the module's variable, set from process.env.SERVICE_NAME
\* (raw) or the placeholder when it is unset (cached), then cut down.  The
\* value is both stored and returned.
GetServiceName(cached, raw) ==
    Truncate(IF cached # <<>> THEN cached
             ELSE IF raw # <<>> THEN raw
             ELSE SERVICE_NAME_UNKNOWN,
             ServiceNameMax, ServiceNameMax - 1)

\* The environment name getEnvironmentName makes of voyent_config's host:
\* the text before the first dot (the host itself when the dot is its first
\* character or it has none), cut down.
EnvironmentOfHost(host) ==
    LET firstDot == IndexOf(host, <<".">>)
    IN  Truncate(IF firstDot > 0 THEN SubSeq(host, 1, firstDot) ELSE host,
                 EnvironmentNameMax, EnvironmentNameMax - 1)

\* tName + '_' + getServiceName() + '_' + queueName
QualifiedQueueNameOf(eName, sName, topicName, queueName) ==
    QualifiedTopicName(eName, topicName)
        \o <<"_">> \o sName \o <<"_">> \o queueName

NameOps == {"getQualifiedTopicName", "getQualifiedQueueName"}

\* getEnvironmentName has called back with eName: the call returns its name.
NameReturned(id, c, eName, waited) ==
    LET sName == GetServiceName(serviceName, deployment[2])
    IN  /\ calls' = [calls EXCEPT ![id] = Settled(Fail(c, "ok"))]
        /\ environmentName' = eName
        /\ IF c.op = "getQualifiedTopicName"
           THEN /\ named' = named \cup
                     {<<c.topicName, <<>>,
                        QualifiedTopicName(eName, c.topicName), waited>>}
                /\ UNCHANGED serviceName
           ELSE /\ named' = named \cup
                     {<<c.topicName, c.queueName,
                        QualifiedQueueNameOf(eName, sName, c.topicName,
                                             c.queueName), waited>>}
                /\ serviceName' = sName

\* getQualifiedTopicName(topicName, cb), getQualifiedQueueName(topicName,
\* queueName, cb): the name checks, then getEnvironmentName, which calls back
\* in the same turn with the name it holds or with ENVIRONMENT_NAME, and
\* else asks for the remote voyent_config.
GetQualifiedName(op, topicName, queueName) ==
    /\ NoneOver
    /\ \E i \in CallIds : calls[i].pc = "idle"
    /\ LET c == [IdleCall EXCEPT !.op = op, !.topicName = topicName,
                                 !.queueName = queueName,
                                 !.todo = <<"env">>]
           eName == IF environmentName # Unset THEN environmentName
                    ELSE deployment[1]
       IN  IF \/ ~IsValidTopicName(topicName)
              \/ op = "getQualifiedQueueName"
                    /\ ~IsValidQueueName(queueName)
           THEN /\ calls' = [calls EXCEPT ![NextCall] =
                                Settled(Fail(c, "invalid"))]
                /\ UNCHANGED <<environmentName, nameVars>>
           ELSE IF eName # Unset
           THEN NameReturned(NextCall, c, eName, FALSE)
                  /\ UNCHANGED deployment
           ELSE /\ calls' = [calls EXCEPT ![NextCall] =
                                [c EXCEPT !.pc = "request"]]
                /\ UNCHANGED <<environmentName, nameVars>>
    /\ UNCHANGED <<topics, cachedTopicArns, lookupVars, queues, firstDone,
                   subVars, polVars, opVars, evVars, logVars, pureVars>>

\* scopes.getEnvironmentAttribute resolves: without a host in the
\* configuration the call reports an error, with one the environment name
\* is set from it.
EnvironmentAttributeAnswers(id) ==
    /\ NoneOver
    /\ calls[id].op \in NameOps
    /\ calls[id].pc = "request"
    /\ IF deployment[3] = <<>>
       THEN /\ calls' = [calls EXCEPT ![id] =
                            Settled(Fail(calls[id], "enverr"))]
            /\ UNCHANGED <<environmentName, nameVars>>
       ELSE NameReturned(id, calls[id], EnvironmentOfHost(deployment[3]),
                         TRUE)
              /\ UNCHANGED deployment
    /\ UNCHANGED <<topics, cachedTopicArns, lookupVars, queues, firstDone,
                   subVars, polVars, opVars, evVars, logVars, pureVars>>

\* scopes.getEnvironmentAttribute rejects.
EnvironmentAttributeFails(id) ==
    /\ NoneOver
    /\ calls[id].op \in NameOps
    /\ calls[id].pc = "request"
    /\ calls' = [calls EXCEPT ![id] = Settled(Fail(calls[id], "enverr"))]
    /\ UNCHANGED <<arnVars, queues, firstDone, subVars, restVars>>

\* A string of n characters
Chars(n) == [i \in 1..n |-> "e"]

\* process.env.ENVIRONMENT_NAME: unset, short, longer than the limit
EnvironmentNames == {<<>>, ENV, Chars(EnvironmentNameMax + 1)}

\* process.env.SERVICE_NAME: unset, short, of the limit, longer
ServiceNames ==
    {<<>>, ServiceName, Chars(ServiceNameMax), Chars(ServiceNameMax + 2)}

\* voyent_config.default.host: absent, with and without a dot, a dot in
\* front, a first label of the limit and one longer
Hosts ==
    {<<>>, <<"d", ".", "c">>, <<"d">>, <<".", "d">>,
     Chars(EnvironmentNameMax) \o <<".", "c">>,
     Chars(EnvironmentNameMax + 2) \o <<".", "c">>}

NameR == <<"r">>

NameArgs ==
    {<<"getQualifiedTopicName", t, <<>> >> : t \in {NameA, NameB, BadName}}
      \cup {<<"getQualifiedQueueName", a[1], a[2]>> :
               a \in {<<NameA, NameQ>>, <<NameA, NameR>>,
                      <<NameA, BadName>>}}

\* The process has resolved neither name; with ENVIRONMENT_NAME set the
\* remote configuration is not looked at.
InitName ==
    /\ topics = {}
    /\ cachedTopicArns = EmptyCache
    /\ environmentName = Unset
    /\ arnQueue = <<>>
    /\ running = 0
    /\ lk = [i \in LookupIds |-> IdleLookup]
    /\ resolved = {}
    /\ submitted = <<>>
    /\ started = <<>>
    /\ delivered = <<>>
    /\ queues = NoQueues
    /\ calls = [i \in CallIds |-> IdleCall]
    /\ firstDone = NoQueues
    /\ subs = <<>>
    /\ overlapped = {}
    /\ completed = {}
    /\ topicPolicies = [t \in {} |-> <<>>]
    /\ edits = [i \in CallIds |-> IdleEdit]
    /\ added = {}
    /\ raced = FALSE
    /\ filterPolicies = [a \in {} |-> <<>>]
    /\ published = {}
    /\ saved = {}
    /\ event = <<>>
    /\ messageAttributes = NotConverted
    /\ logged = {}
    /\ passed = {}
    /\ deployment \in
          {<<e, s, h>> : e \in EnvironmentNames, s \in ServiceNames,
                         h \in Hosts}
    /\ (deployment[1] # <<>>) => deployment[3] = <<>>
    /\ serviceName = <<>>
    /\ named = {}
    /\ input = <<>>
    /\ output = NoOutput

NextName ==
    \/ \E a \in NameArgs : GetQualifiedName(a[1], a[2], a[3])
    \/ \E id \in CallIds : EnvironmentAttributeAnswers(id)
    \/ \E id \in CallIds : EnvironmentAttributeFails(id)
    \/ \E id \in CallIds : ForgetCall(id)

SpecName == InitName /\ [][NextName]_vars

(***************************************************************************)
(* Functions of their arguments alone                                      *)
(***************************************************************************)
\* isValidName applied to a value: !name is true of undefined, of null and
\* of the empty string.
IsValidNameOf(value, length) ==
    /\ value[1] \notin {"undefined", "null"}
    /\ IsValidName(value[3], length)

\* isValidTopicName(input), isValidQueueName(input)
ApplyIsValidName(which, length) ==
    /\ input[1] \in {"undefined", "null", "string"}
    /\ output' = <<which, IsValidNameOf(input, length)>>
    /\ UNCHANGED <<arnVars, provVars, subVars, polVars, opVars, evVars,
                   logVars, nameVars, input>>

\* getQualifiedQueueName(topicName, queueName) with the environment name
\* and the service name known: the error of a name check, or the name.
GetQualifiedQueueNameOf(topicName, queueName) ==
    IF ~IsValidTopicName(topicName) \/ ~IsValidQueueName(queueName)
    THEN <<"error", <<>> >>
    ELSE <<"ok", QualifiedQueueNameOf(environmentName, serviceName,
                                      topicName, queueName)>>

\* getQualifiedQueueName for each of the two pairs of the input
ApplyGetQualifiedQueueName ==
    /\ input[1] = "pairs"
    /\ output' = <<"getQualifiedQueueName",
                   GetQualifiedQueueNameOf(input[2][1], input[2][2]),
                   GetQualifiedQueueNameOf(input[3][1], input[3][2])>>
    /\ UNCHANGED <<arnVars, provVars, subVars, polVars, opVars, evVars,
                   logVars, nameVars, input>>

\* n times the character ch
Fill(n, ch) == [i \in 1..n |-> ch]

\* The lengths about the two limits, and characters in and outside the
\* class of the regular expression.
NameLengths == {1, 2, TopicNameMax, TopicNameMax + 1, QueueNameMax,
                QueueNameMax + 1}

GoodChars == {"a", "Z", "0", "-", "_"}

OtherChars == {"!", " ", ".", "\n"}

\* The names isValidName is applied to: absent, empty, of good characters
\* only, and with one other character in front, inside or at the end.
NameInputs ==
    {Undefined, Null, String(<<>>)}
        \cup {String(Fill(n, ch)) : n \in NameLengths, ch \in GoodChars}
        \cup {String(<<ch>> \o Fill(n - 1, "a")) :
                 n \in NameLengths, ch \in OtherChars}
        \cup {String(Fill(n - 1, "a") \o <<ch>>) :
                 n \in NameLengths, ch \in OtherChars}
        \cup {String(<<"a", ch, "b">>) : ch \in OtherChars}

\* The pairs getQualifiedQueueName is applied to: a topic's name or
\* getTopicName's name for several topics, and a queue's name; names with
\* and without the separator, and one name that fails the check.
NamePairs ==
    {<<t, q>> :
        t \in {NameA, <<"a", "_">> \o ServiceName \o <<"_", "x">>,
               MULTIPLE_TOPICS, BadName},
        q \in {NameQ, <<"x", "_">> \o ServiceName \o <<"_", "q">>,
               MULTIPLE_TOPICS}}

PairInputs == {<<"pairs", p1, p2>> : p1 \in NamePairs, p2 \in NamePairs}

InitPure ==
    /\ topics = {}
    /\ cachedTopicArns = EmptyCache
    /\ environmentName = ENV
    /\ arnQueue = <<>>
    /\ running = 0
    /\ lk = [i \in LookupIds |-> IdleLookup]
    /\ resolved = {}
    /\ submitted = <<>>
    /\ started = <<>>
    /\ delivered = <<>>
    /\ queues = NoQueues
    /\ calls = [i \in CallIds |-> IdleCall]
    /\ firstDone = NoQueues
    /\ subs = <<>>
    /\ overlapped = {}
    /\ completed = {}
    /\ topicPolicies = [t \in {} |-> <<>>]
    /\ edits = [i \in CallIds |-> IdleEdit]
    /\ added = {}
    /\ raced = FALSE
    /\ filterPolicies = [a \in {} |-> <<>>]
    /\ published = {}
    /\ saved = {}
    /\ event = <<>>
    /\ messageAttributes = NotConverted
    /\ logged = {}
    /\ passed = {}
    /\ deployment = <<ENV, ServiceName, <<>> >>
    /\ serviceName = ServiceName
    /\ named = {}
    /\ input \in NameInputs \cup PairInputs
    /\ output = NoOutput

NextPure ==
    \/ ApplyIsValidName("isValidTopicName", TopicNameMax)
    \/ ApplyIsValidName("isValidQueueName", QueueNameMax)
    \/ ApplyGetQualifiedQueueName

SpecPure == InitPure /\ [][NextPure]_vars

(***************************************************************************)
(* Claims about ARN resolution, checked under SpecArn                      *)
(***************************************************************************)
Done(i) == lk[i].pc = "done"

\* The listing of lookup i ran to its end and the cache was filled from it.
Refreshed(i) ==
    Done(i) /\ lk[i].listings > 0 /\ lk[i].res \notin {"provider", "enverr"}

\* C1: at every point at most one execution of getTopicArn (with the
\* listing it may trigger) is in flight in the process, whichever operation
\* asked for it, addToTopicPolicy included.
C1_AtMostOneLookupInFlight ==
    Cardinality({i \in LookupIds : InFlight(lk[i])}) <= 1

IsPrefix(p, q) == Len(p) <= Len(q) /\ p = SubSeq(q, 1, Len(p))

\* C2: the lookups pushed through queuedGetTopicArn start in push order,
\* each starts only after the callback of the one before it has run, and
\* the callbacks run in push order.
C2_QueuedLookupsAreFifo ==
    /\ IsPrefix(started, submitted)
    /\ IsPrefix(delivered, started)
    /\ Len(started) <= Len(delivered) + 1

\* Two queued lookups have been answered, the second pushed while the
\* listing of the first was in flight.
C2_Witness ==
    /\ Len(delivered) = 2
    /\ lk[delivered[2]].during = delivered[1]

\* C3: a lookup of a name submitted after a lookup of that name has
\* succeeded issues no list-topics call and returns an ARN, whatever ran in
\* between.
C3_NoListingAfterSuccess ==
    \A i \in LookupIds :
        lk[i].after =>
            /\ lk[i].listings = 0
            /\ lk[i].pc \in {"queued", "done"}
            /\ Done(i) => lk[i].res = "ok" /\ lk[i].arn # <<>>

\* A lookup submitted after a success has returned the cached ARN although
\* the topic has been deleted at the provider meanwhile.
C3_Witness ==
    \E i \in LookupIds :
        /\ lk[i].after
        /\ Done(i)
        /\ lk[i].res = "ok"
        /\ lk[i].stale

\* Lookup i is a queued lookup that began with an empty cache, whose listing
\* ran to its end, and whose name's topic existed throughout the listing.
ColdLister(i) ==
    /\ lk[i].via = "queued"
    /\ lk[i].cold
    /\ Refreshed(i)
    /\ ~lk[i].gone

\* Lookup j was pushed while the listing of i was in flight, for a name
\* whose topic existed throughout that listing.
PushedDuring(j, i) ==
    /\ lk[j].during = i
    /\ IsValidTopicName(lk[j].name)
    /\ ~lk[j].gone

\* C4: from an empty cache, the lookups pushed while the first lookup's
\* listing is in flight, all for names that exist in this environment, issue
\* no listing of their own: the one listing of the first lookup, once it has
\* filled the cache, answers them all.
C4_OneListingServesQueuedLookups ==
    \A i \in LookupIds :
        ColdLister(i) =>
            /\ lk[i].res = "ok"
            /\ lk[i].listings = 1
            /\ \A j \in LookupIds :
                  PushedDuring(j, i) =>
                      /\ lk[j].listings = 0
                      /\ lk[j].pc \in {"queued", "done"}
                      /\ Done(j) => lk[j].res = "ok"

\* Two lookups of different names, the second pushed during the listing of
\* the first, have both succeeded from one listing.
C4_Witness ==
    \E i, j \in LookupIds :
        /\ ColdLister(i)
        /\ PushedDuring(j, i)
        /\ lk[j].name # lk[i].name
        /\ Done(j)
        /\ lk[j].res = "ok"
        /\ lk[i].listings + lk[j].listings = 1

\* C5: a lookup that misses the cache performs exactly one listing; it
\* succeeds iff that listing holds the topic of this environment with the
\* lookup's name, and otherwise fails with the ARN-not-found error.
C5_MissSucceedsIffOwnTopicListed ==
    \A i \in LookupIds :
        Refreshed(i) =>
            /\ lk[i].listings = 1
            /\ lk[i].res = "ok" <=> lk[i].sawOwn
            /\ lk[i].res # "ok" => lk[i].res = "notfound"

\* C6: once the cache maps a name to an ARN, no step changes the ARN stored
\* for that name.
C6_CachedArnNeverReplaced ==
    [][\A k \in DOMAIN cachedTopicArns :
          /\ k \in DOMAIN cachedTopicArns'
          /\ cachedTopicArns'[k] = cachedTopicArns[k]]_vars

\* C33: a step of a listing is a failure, which ends the lookup with the
\* provider's error and leaves the cache as it was; or a page with a token,
\* after which the next request carries that token and the list is the one
\* so far followed by the page; or a page without a token, after which no
\* request follows and the list handed on (to the wait for the environment
\* name, or to the cache) is the one so far followed by the page.
PagesFollowTokens ==
    \A id \in LookupIds :
        LET l    == lk[id]
            l2   == lk'[id]
            page == ListTopicsPage(topics, l.token)
            list == l.all \o page.Topics
        IN  (/\ l.pc = "listing"
             /\ <<l2.pc, l2.token, l2.all>> # <<l.pc, l.token, l.all>>) =>
               \/ /\ l2.pc = "done"
                  /\ l2.res = "provider"
                  /\ cachedTopicArns' = cachedTopicArns
               \/ /\ page.NextToken # 0
                  /\ l2.pc = "listing"
                  /\ l2.token = page.NextToken
                  /\ l2.all = list
               \/ /\ page.NextToken = 0
                  /\ \/ l2.pc = "env" /\ l2.all = list
                     \/ /\ l2.pc = "done"
                        /\ l2.res \in {"ok", "notfound"}
                        /\ cachedTopicArns' =
                              CacheAll(cachedTopicArns, list,
                                       environmentName)

C33_ListingFollowsTheTokens == [][PagesFollowTokens]_vars

C33_Witness ==
    \E id \in LookupIds :
        /\ lk[id].pc = "done"
        /\ lk[id].res = "ok"
        /\ lk[id].cold
        /\ lk[id].listings = 1
        /\ \A j \in LookupIds \ {id} : lk[j].pc = "idle"
        /\ DOMAIN cachedTopicArns = {NameA, NameB}
        /\ PageSize < Cardinality(topics)

\* C34: every entry of the cache maps a bare name n to the ARN of the topic
\* whose name at the provider is exactly the environment name, an
\* underscore and n; the ARN of another environment's topic is never cached.
C34_CacheHoldsOnlyOwnTopics ==
    \A n \in DOMAIN cachedTopicArns : cachedTopicArns[n] = OwnArn(n)

\* C38: a step in which a look-up's refresh of the cache fails, by a page
\* of the listing or by the environment name, leaves the cache exactly as
\* it was and ends the look-up with that error and no ARN.
FailedRefreshLeavesTheCache ==
    \A id \in LookupIds :
        (/\ lk[id].pc \in {"listing", "env"}
         /\ lk'[id].pc = "done"
         /\ lk'[id].res \notin {"ok", "notfound"}) =>
            /\ cachedTopicArns' = cachedTopicArns
            /\ lk'[id].res = IF lk[id].pc = "listing" THEN "provider"
                             ELSE "enverr"
            /\ lk'[id].arn = <<>>

C38_FailedRefreshLeavesTheCache == [][FailedRefreshLeavesTheCache]_vars

\* A look-up has failed by a page of its listing, with the environment
\* name known and its topic at the provider, and nothing is cached.
C38_Witness ==
    \E id \in LookupIds :
        /\ lk[id].pc = "done"
        /\ lk[id].res = "provider"
        /\ lk[id].listings = 1
        /\ environmentName = ENV
        /\ OwnArn(lk[id].name) \in topics
        /\ cachedTopicArns = EmptyCache

\* The callback of a queued look-up has run once when the look-up is done
\* and not at all before.
CalledBackOnce ==
    \A id \in LookupIds :
        lk[id].via = "queued" =>
            Len(SelectSeq(delivered, LAMBDA x : x = id))
                = IF lk[id].pc = "done" THEN 1 ELSE 0

HasRedrivePolicy(q) ==
    LET rp == Attr(q.Attributes, "RedrivePolicy")
    IN  /\ rp # <<>>
        /\ rp.deadLetterTargetArn = QueueArnOf(DlqName)

\* C9: every queue a createQueue call has made at the provider has, once
\* that call has returned, with success or with an error, a redrive policy
\* whose deadLetterTargetArn is the ARN of the service's dead letter queue.
C9_ReturnedCreateQueueLeftRedrivePolicy ==
    \A n \in DOMAIN queues :
        (queues[n].by = "createQueue" /\ queues[n].returned # "no")
            => HasRedrivePolicy(queues[n])

\* C10: a createQueue that begins after a createQueue for the same names has
\* succeeded makes no queue, ends (the provider answering its requests) with
\* success and the ARN the first one returned, and at no point are the
\* queue's access policy and redrive policy other than the first one left.
C10_RepeatedCreateQueueIsIdempotent ==
    /\ \A i \in CallIds :
          (calls[i].op = "createQueue" /\ calls[i].after) =>
              /\ ~calls[i].made
              /\ calls[i].pc = "done" =>
                    /\ calls[i].res \in {"ok", "provider"}
                    /\ calls[i].res = "ok" =>
                          calls[i].arn =
                              firstDone[QualifiedQueueName(environmentName,
                                  calls[i].topicName, calls[i].queueName)].arn
    /\ \A n \in DOMAIN firstDone :
          /\ n \in DOMAIN queues
          /\ firstDone[n].arn = QueueArnOf(n)
          /\ Attr(queues[n].Attributes, "Policy") = firstDone[n].Policy
          /\ Attr(queues[n].Attributes, "RedrivePolicy")
                = firstDone[n].RedrivePolicy

C10_Witness ==
    \E i \in CallIds :
        /\ calls[i].op = "createQueue" /\ calls[i].after
        /\ calls[i].pc = "done" /\ calls[i].res = "ok"

\* C37: the dead letter queue is made by createDeadLetterQueue alone and
\* has no redrive policy; every redrive policy of a queue names the dead
\* letter queue, and never the queue itself.
C37_DeadLetterQueueIsApart ==
    /\ DlqName \in DOMAIN queues =>
          /\ queues[DlqName].by = "createDeadLetterQueue"
          /\ Attr(queues[DlqName].Attributes, "RedrivePolicy") = <<>>
    /\ \A n \in DOMAIN queues :
          LET rp == Attr(queues[n].Attributes, "RedrivePolicy")
          IN  rp # <<>> =>
                /\ rp.deadLetterTargetArn = QueueArnOf(DlqName)
                /\ rp.deadLetterTargetArn # QueueArnOf(n)

(***************************************************************************)
(* Claims about subscribing, checked under SpecSub                         *)
(***************************************************************************)
SubKeys == {<<NameA, FALSE, NameQ>>, <<NameA, TRUE, NameQ>>,
            <<NameB, TRUE, NameQ>>}

\* The provider's records of the queue of key at the topic of key.
Records(key) ==
    LET topicArn == TopicArnOf(QualifiedTopicName(environmentName, key[1]))
        queueArn == QueueArnOf(QualifiedQueueName(environmentName,
                        QueueTopicName(key[1], key[2]), key[3]))
    IN  SelectSeq(subs, LAMBDA sub :
            sub.TopicArn = topicArn /\ sub.Endpoint = queueArn)

InSeq(x, seq) == \E n \in DOMAIN seq : seq[n] = x

\* Item k of call id is at its check, after a subscribeQueueToTopic for the
\* same topic and queue has succeeded, and the answer arrives.
CheckedAfterSuccess(id, k) ==
    /\ k <= Len(calls[id].items)
    /\ calls[id].items[k].pc = "check"
    /\ Key(calls[id].items[k], calls[id].queueName) \in completed
    /\ calls'[id].items[k] # calls[id].items[k]

\* C7: once subscribeQueueToTopic has succeeded for a topic and a queue, an
\* execution with the same arguments sends no subscribe request and (the
\* provider answering) calls back without error with a record the provider
\* holds of that queue at that topic; and the provider holds exactly one
\* such record when no two executions for them ran at the same time.
C7_SecondSubscribeFindsTheFirst ==
    /\ [](\A key \in SubKeys :
              (key \in completed /\ key \notin overlapped)
                  => Len(Records(key)) = 1)
    /\ [][\A id \in CallIds, k \in 1..MaxItems :
              CheckedAfterSuccess(id, k) =>
                 LET it == calls'[id].items[k]
                 IN  /\ subs' = subs
                     /\ it.pc = "done" /\ ~it.asked
                     /\ it.res \in {"ok", "provider"}
                     /\ it.res = "ok" =>
                           InSeq(it.sub,
                               Records(Key(it, calls[id].queueName)))]_vars

\* The item's execution called back with a record it found.
Found(i, k) ==
    /\ k <= Len(calls[i].items)
    /\ calls[i].items[k].pc = "done"
    /\ calls[i].items[k].res = "ok"
    /\ ~calls[i].items[k].asked
    /\ Key(calls[i].items[k], calls[i].queueName) \notin overlapped
    /\ Len(Records(Key(calls[i].items[k], calls[i].queueName))) = 1
    /\ InSeq(calls[i].items[k].sub,
             Records(Key(calls[i].items[k], calls[i].queueName)))

C7_Witness ==
    \E i \in CallIds :
        calls[i].op = "subscribeQueueToTopic" /\ Found(i, 1)

\* C8 as stated: whatever the interleaving of the calls, the provider
\* (making one record for each subscribe request) never holds two records
\* of one queue at one topic.
C8_AtMostOneRecordPerQueueAndTopic ==
    \A m, n \in DOMAIN subs :
        (subs[m].TopicArn = subs[n].TopicArn
            /\ subs[m].Endpoint = subs[n].Endpoint) => m = n

\* C8, amended: the provider holds at most one record of a queue at a topic
\* as long as no subscribeQueueToTopic for that queue and topic has begun
\* while another one for them was under way.
C8_AtMostOneRecordWithoutOverlap ==
    \A key \in SubKeys :
        key \notin overlapped => Len(Records(key)) <= 1

C8_Witness ==
    \E i \in CallIds, k \in 1..MaxItems :
        calls[i].op = "subscribeQueueToTopics" /\ Found(i, k)

(***************************************************************************)
(* Claims about addToTopicPolicy, checked under SpecPolicy                 *)
(***************************************************************************)
\* The statements of the policy the provider holds for the topic.
Stored ==
    LET text == topicPolicies[TopicArnOf(QualifiedTopicName(ENV, NameA))]
    IN  IF text = <<>> THEN <<>> ELSE JsonParsePolicy(text).Statement

\* The number of statements of the stored policy with serialization s.
Copies(s) ==
    Cardinality({i \in DOMAIN Stored : JsonStringify(Stored[i]) = s})

\* C11: when addToTopicPolicy is called again with a statement a call has
\* succeeded with (calls in sequence: none began while another was under
\* way), the second call sends no set-topic-attributes request and (the
\* provider answering) calls back with the policy as the provider holds it,
\* and the policy holds exactly one copy of the statement.
C11_SecondAddLeavesOneCopyAndWritesNothing ==
    ~raced =>
        /\ \A a \in added : Copies(a[2]) = 1
        /\ \A i \in CallIds :
              edits[i].after =>
                  /\ ~edits[i].asked
                  /\ edits[i].pc \in {"get", "done"}
                  /\ edits[i].pc = "done" =>
                        /\ edits[i].res \in {"ok", "provider"}
                        /\ edits[i].res = "ok" =>
                              edits[i].modifiedPolicy.Statement = Stored

\* A second call, in sequence, for a statement the first call wrote has
\* called back with the policy.
C11_Witness ==
    /\ ~raced
    /\ \E i \in CallIds :
          /\ edits[i].after
          /\ edits[i].pc = "done" /\ edits[i].res = "ok"
          /\ edits[i].statement = StatementB
          /\ Copies(JsonStringify(StatementB)) = 1

\* Two statements are structurally identical: the same keys with the same
\* values (deep equality).
DeepEqual(s, t) ==
    {s[i] : i \in DOMAIN s} = {t[i] : i \in DOMAIN t}

\* C12: the stored policy never holds two structurally identical
\* statements, whatever the calls of addToTopicPolicy and their interleaving.
C12_NoTwoStructurallyIdenticalStatements ==
    \A i, j \in DOMAIN Stored :
        DeepEqual(Stored[i], Stored[j]) => i = j

\* The stored policy never holds two statements of one serialization.
NoTwoStatementsOfOneSerialization ==
    \A i, j \in DOMAIN Stored :
        JsonStringify(Stored[i]) = JsonStringify(Stored[j]) => i = j

\* A statement a call reported as added is missing from the stored policy.
Lost(s) == <<NameA, s>> \in added /\ Copies(s) = 0

\* C13: the read and the write of addToTopicPolicy are not isolated: a
\* statement a call has reported success for is missing from the stored
\* policy only after calls have overlapped (the later write, made from the
\* policy read before the earlier one, replaced it), and with overlapping
\* calls this happens.
C13_StatementLostOnlyByOverlappingCalls ==
    (\E a \in added : Lost(a[2])) => raced

\* Two calls with different statements have both reported success and the
\* stored policy holds the statement of one of them only.
C13_Witness ==
    /\ Lost(JsonStringify(StatementA))
    /\ Copies(JsonStringify(StatementB)) = 1
    /\ \E i \in CallIds :
          /\ edits[i].pc = "done" /\ edits[i].res = "ok" /\ edits[i].asked
          /\ edits[i].statement = StatementB

(***************************************************************************)
(* Claims about the operations on one topic or one queue (SpecOps)         *)
(***************************************************************************)
\* The topic name call c was given.
GivenTopicName(c) ==
    IF c.op \in ChainOps \cup {"createQueue"} THEN c.topicName
    ELSE c.topicNames[1]

\* A name call c was given and checks is invalid.
GivenInvalidName(c) ==
    \/ ~IsValidName(GivenTopicName(c), TopicNameMax)
    \/ /\ c.op \in ChainOps => TakesQueueName(c.op)
       /\ ~IsValidName(c.queueName, QueueNameMax)

\* C14: a call of createTopic, deleteTopic, createQueue, deleteQueue,
\* getQueueUrl, getQueueArn, publishMessageToTopic, sendMessageToQueue,
\* subscribeQueueToTopic, setFilterForSubscription or getTopicArn that was
\* given an invalid name has called back with the invalid-name error, and
\* every request of its code is unsent: it never waits for the provider, the
\* environment look-up or the event store.
C14_InvalidNameIsRejectedBeforeAnyRequest ==
    \A i \in CallIds :
        LET c == calls[i]
        IN  (c.pc # "idle" /\ GivenInvalidName(c)) =>
               /\ c.pc = "done"
               /\ c.res = "invalid"
               /\ c.op \in ChainOps => c.todo = Chain(c.op)
               /\ ~c.made
               /\ \A k \in ItemsOf(c) :
                     /\ c.items[k].pc = "done"
                     /\ c.items[k].res = "invalid"
                     /\ ~c.items[k].asked

C14_Witness ==
    /\ environmentName = Unset
    /\ \E i \in CallIds :
          /\ calls[i].op = "deleteQueue"
          /\ calls[i].topicName = NameA
          /\ calls[i].queueName = LongName(QueueNameMax)
          /\ calls[i].pc = "done"
          /\ calls[i].res = "invalid"

\* The provider holds a record of the queue's subscription to the topic.
SubscribedTo(topicName, queueName) ==
    \E n \in 1..Len(subs) :
        /\ subs[n].TopicArn = TopicArnOf(QualifiedTopicName(ENV, topicName))
        /\ subs[n].Endpoint =
              QueueArnOf(QualifiedQueueName(ENV, topicName, queueName))

\* C19: a setFilterForSubscription for an existing topic and queue that has
\* called back has, the queue not being subscribed to the topic, sent no
\* request that sets an attribute and failed only if a request failed; with
\* a subscription, when it succeeds, the subscription's FilterPolicy is the
\* serialization of the filter it was given and of nothing else.
C19_FilterIsNoOpWithoutSubscriptionAndReplacedWithOne ==
    \A i \in CallIds :
        LET c  == calls[i]
            it == c.items[1]
        IN  (/\ c.op = "setFilterForSubscription"
             /\ c.pc = "done"
             /\ ~GivenInvalidName(c)
             /\ TopicArnOf(QualifiedTopicName(ENV, it.topicName)) \in topics
             /\ QualifiedQueueName(ENV, it.topicName, c.queueName)
                   \in DOMAIN queues) =>
               /\ ~SubscribedTo(it.topicName, c.queueName) =>
                     /\ ~it.asked
                     /\ c.res \in {"ok", "provider"}
                     /\ filterPolicies = [a \in {} |-> <<>>]
               /\ (SubscribedTo(it.topicName, c.queueName) /\ c.res = "ok") =>
                     /\ it.asked
                     /\ it.sub.TopicArn =
                           TopicArnOf(QualifiedTopicName(ENV, it.topicName))
                     /\ filterPolicies[it.sub.SubscriptionArn] =
                           JsonStringify(c.filter)

C19_Witness ==
    \E i \in CallIds :
        /\ calls[i].op = "setFilterForSubscription"
        /\ calls[i].pc = "done"
        /\ calls[i].res = "ok"
        /\ calls[i].filter = FilterTwo
        /\ calls[i].items[1].was = JsonStringify(FilterOne)
        /\ filterPolicies[calls[i].items[1].sub.SubscriptionArn] =
              JsonStringify(FilterTwo)

\* A setFilterForSubscription has succeeded without a request, the queue not
\* being subscribed.
FilterNoOpReached ==
    \E i \in CallIds :
        /\ calls[i].op = "setFilterForSubscription"
        /\ calls[i].pc = "done"
        /\ calls[i].res = "ok"
        /\ ~calls[i].items[1].asked

\* The requests of saveEventToDB.
EventStoreRequests == {"db.getCollection", "coll.insertOne"}

\* What holds of a publishMessageToTopic at each point of its course.
PublishInOrder ==
    \A i \in CallIds :
        LET c == calls[i]
        IN  c.op = "publishMessageToTopic" =>
               /\ (c.pc = "request" /\ Head(c.todo) = "sns.publish") =>
                     /\ Cached(cachedTopicArns, c.topicName)
                     /\ c.arn = cachedTopicArns[c.topicName]
               /\ (c.pc = "request" /\ Head(c.todo) \in EventStoreRequests) =>
                     <<c.arn, c.message>> \in published
               /\ (c.pc = "done" /\ c.res = "db") =>
                     /\ Head(c.todo) \in EventStoreRequests
                     /\ <<c.arn, c.message>> \in published
               /\ (c.pc = "done" /\ c.res = "ok") =>
                     /\ <<c.arn, c.message>> \in published
                     /\ JsonParse(c.message) \in saved

\* A publishMessageToTopic that returns from a request to the event store
\* returns its success or its error, and with the error nothing is undone.
PersistOutcome ==
    \A i \in CallIds :
        (/\ calls[i].op = "publishMessageToTopic"
         /\ calls[i].pc = "request"
         /\ Head(calls[i].todo) \in EventStoreRequests
         /\ calls'[i].pc = "done") =>
            /\ calls'[i].res \in {"ok", "db"}
            /\ calls'[i].res = "db" =>
                  /\ published' = published
                  /\ saved' = saved
                  /\ topics' = topics

\* C20: publishMessageToTopic sends the publish request with the ARN its
\* look-up resolved, sends the requests to the event store with the message
\* published, and calls back with the error of the event store when one of
\* these fails; what has been published stays published.
C20_PublishThenPersistWithoutCompensation ==
    /\ []PublishInOrder
    /\ [][published \subseteq published' /\ PersistOutcome]_vars

C20_Witness ==
    \E i \in CallIds :
        /\ calls[i].op = "publishMessageToTopic"
        /\ calls[i].pc = "done"
        /\ calls[i].res = "db"
        /\ published = {<<TopicArnOf(QualifiedTopicName(ENV, NameA)), Message>>}
        /\ saved = {}

\* C22: a createTopic that has reported success has had every request it
\* sent, the one that creates the topic and the one that adds the permission,
\* answered without an error.
C22_CreateTopicSucceedsOnlyIfEveryRequestDid ==
    \A i \in CallIds :
        (/\ calls[i].op = "createTopic"
         /\ calls[i].pc = "done"
         /\ calls[i].res = "ok") => calls[i].todo = <<>>

\* C23: deleteTopic sends the request that deletes a topic only with an ARN
\* its look-up has resolved, and after a failed look-up calls back with the
\* request unsent.
C23_DeleteOnlyWithResolvedArn ==
    \A i \in CallIds :
        LET c == calls[i]
        IN  c.op = "deleteTopic" =>
               /\ (c.pc = "request" /\ Head(c.todo) = "sns.deleteTopic") =>
                     c.arn # <<>>
               /\ (c.pc = "done" /\ c.arn = <<>> /\ c.res # "invalid") =>
                     c.todo = Chain(c.op)

\* C35: a look-up that succeeds returns the ARN of a topic the provider
\* has, and a publish request names such a topic: the ARN of a topic that
\* deleteTopic has deleted is neither returned nor published to.
C35_DeletedArnIsNotUsed ==
    \A id \in CallIds :
        LET c == calls[id]
        IN  /\ (c.op = "getTopicArn" /\ c.pc = "done" /\ c.res = "ok") =>
                  c.arn \in topics
            /\ (/\ c.op = "publishMessageToTopic"
                /\ c.pc = "request"
                /\ Head(c.todo) = "sns.publish") => c.arn \in topics

\* C40: publishMessageToTopic with a valid topic name comes to call its
\* callback: no call of it ends by an exception thrown in place of the
\* callback.
C40_PublishCallsBack ==
    \A id \in CallIds :
        (/\ calls[id].op = "publishMessageToTopic"
         /\ IsValidTopicName(calls[id].topicName)
         /\ calls[id].pc = "done") => calls[id].res # "thrown"

(***************************************************************************)
(* Claims about createSubscription (SpecCreate)                            *)
(***************************************************************************)
CreateCalls == {i \in CallIds : calls[i].op = "createSubscription"}

\* C15: a createSubscription that has reported an invalid name has sent no
\* request: it failed in createTopics, and none of its createTopic
\* executions got as far as its request.
C15_InvalidDescriptorIssuesNoProviderCall ==
    \A i \in CreateCalls :
        (calls[i].pc = "done" /\ calls[i].res = "invalid") =>
            /\ calls[i].stage = "topics"
            /\ \A k \in ItemsOf(calls[i]) : ~calls[i].items[k].asked

\* The name under which the queue of a descriptor is qualified.
QueueTopicOf(topicNames) ==
    IF Len(topicNames) > 1 THEN MULTIPLE_TOPICS ELSE topicNames[1]

\* The qualified name of the queue of call c.
QueueOf(c) == QualifiedQueueName(ENV, QueueTopicOf(c.topicNames), c.queueName)

\* The records of the subscription of the queue of ARN queueArn to the topic.
RecordsOf(topicName, queueArn) ==
    {n \in 1..Len(subs) :
        /\ subs[n].TopicArn = TopicArnOf(QualifiedTopicName(ENV, topicName))
        /\ subs[n].Endpoint = queueArn}

\* C16: when createSubscription({topicNames: [t], queueName: q, filter: f})
\* has reported success, the topic of t exists, the queue of t and q exists
\* with a redrive policy whose target is the dead letter queue, the provider
\* holds exactly one record of the queue's subscription to the topic, and
\* that subscription's FilterPolicy is the serialization of f.
C16_CreateSubscriptionLeavesTopicQueueSubscriptionFilter ==
    \A i \in CreateCalls :
        LET c == calls[i]
            t == c.topicNames[1]
        IN  (c.pc = "done" /\ c.res = "ok" /\ Len(c.topicNames) = 1) =>
               /\ TopicArnOf(QualifiedTopicName(ENV, t)) \in topics
               /\ QueueOf(c) \in DOMAIN queues
               /\ HasRedrivePolicy(queues[QueueOf(c)])
               /\ DlqName \in DOMAIN queues
               /\ Cardinality(RecordsOf(t, QueueArnOf(QueueOf(c)))) = 1
               /\ c.filter # <<>> =>
                     \A n \in RecordsOf(t, QueueArnOf(QueueOf(c))) :
                        /\ subs[n].SubscriptionArn \in DOMAIN filterPolicies
                        /\ filterPolicies[subs[n].SubscriptionArn] =
                              JsonStringify(c.filter)

C16_Witness ==
    \E i \in CreateCalls :
        /\ calls[i].pc = "done"
        /\ calls[i].res = "ok"
        /\ calls[i].topicNames = <<NameA>>
        /\ calls[i].filter = FilterOne
        /\ Len(subs) = 1
        /\ filterPolicies[subs[1].SubscriptionArn] = JsonStringify(FilterOne)

\* C17: createSubscription creates its queue under MULTIPLE_TOPICS for a
\* descriptor of more than one topic name and under the topic's name for a
\* descriptor of one, and for every topic of the descriptor the ARN that
\* the subscribe and the filter executions look up, check and subscribe is
\* the ARN of that queue.
C17_OneQueuePerDescriptorUnderSentinelOrTopic ==
    \A i \in CreateCalls :
        LET c == calls[i]
        IN  /\ (c.stage = "queue" /\ c.pc # "done") =>
                  c.topicName = QueueTopicOf(c.topicNames)
            /\ c.stage \in {"subscribe", "filter", "end"} =>
                  /\ c.arn = QueueArnOf(QueueOf(c))
                  /\ QueueOf(c) \in DOMAIN queues
                  /\ queues[QueueOf(c)].by = "createQueue"
                  /\ \A k \in ItemsOf(c) :
                        LET it == c.items[k]
                        IN  /\ it.multi = (Len(c.topicNames) > 1)
                            /\ it.queueArn # <<>> => it.queueArn = c.arn
                            /\ it.sub # NoSub =>
                                  /\ it.sub.Endpoint = c.arn
                                  /\ it.sub.TopicArn =
                                        TopicArnOf(QualifiedTopicName(ENV,
                                            it.topicName))
            /\ (c.stage = "end" /\ c.res = "ok") =>
                  \A k \in 1..Len(c.topicNames) :
                      RecordsOf(c.topicNames[k], c.arn) # {}

C17_Witness ==
    \E i \in CreateCalls :
        /\ calls[i].topicNames = <<NameB, NameA>>
        /\ calls[i].filter = FilterOne
        /\ calls[i].stage = "end"
        /\ calls[i].arn =
              QueueArnOf(QualifiedQueueName(ENV, MULTIPLE_TOPICS, NameQ))
        /\ \A k \in 1..2 : calls[i].items[k].sub.Endpoint = calls[i].arn
        /\ DOMAIN filterPolicies = {1, 2}

\* What createSubscription has done when it is at each of its steps.
StepsInOrder ==
    \A i \in CreateCalls :
        LET c == calls[i]
        IN  /\ c.stage \in {"queue", "subscribe", "filter", "end"} =>
                  \A k \in 1..Len(c.topicNames) :
                      TopicArnOf(QualifiedTopicName(ENV, c.topicNames[k]))
                          \in topics
            /\ c.stage \in {"subscribe", "filter", "end"} =>
                  /\ QueueOf(c) \in DOMAIN queues
                  /\ DlqName \in DOMAIN queues
                  /\ HasRedrivePolicy(queues[QueueOf(c)])
                  /\ Attr(queues[QueueOf(c)].Attributes, "Policy") =
                        GetQueuePolicy(QueueArnOf(QueueOf(c)))
                  /\ Attr(queues[DlqName].Attributes, "Policy") =
                        GetQueuePolicy(QueueArnOf(DlqName))
            /\ c.stage \in {"filter", "end"} =>
                  \A k \in 1..Len(c.topicNames) :
                      RecordsOf(c.topicNames[k], QueueArnOf(QueueOf(c))) # {}
            /\ c.stage = "end" => (c.pc = "done" /\ c.res = "ok")
            /\ (c.pc = "done" /\ c.res # "ok") =>
                  \A k \in ItemsOf(c) :
                      c.items[k].pc \in
                          CASE c.stage = "topics" ->
                                 {"create", "permission", "done"}
                            [] c.stage = "subscribe" ->
                                 {"arns", "check", "subscribe", "done"}
                            [] c.stage = "filter" ->
                                 {"arns", "check", "filter", "done"}
                            [] OTHER -> {}

\* The provider's topics, queues, subscriptions and filters change by a
\* request of the step they belong to, and a createSubscription that has
\* called back stays as it is until its caller has its result.
StepsApart ==
    /\ topics' # topics => \E i \in CreateCalls : calls[i].stage = "topics"
    /\ queues' # queues => \E i \in CreateCalls : calls[i].stage = "queue"
    /\ subs' # subs => \E i \in CreateCalls : calls[i].stage = "subscribe"
    /\ filterPolicies' # filterPolicies =>
          \E i \in CreateCalls : calls[i].stage = "filter"
    /\ \A i \in CreateCalls :
          calls[i].pc = "done" =>
             \/ calls'[i] = IdleCall
             \/ /\ calls'[i].pc = "done"
                /\ calls'[i].res = calls[i].res
                /\ calls'[i].stage = calls[i].stage

\* C18: createSubscription sends the requests that create its queue with
\* every topic of the descriptor created, the subscribe requests with the
\* queue, the dead letter queue and their policies in place, and the filter
\* requests with every topic subscribed; after an error of a step nothing of
\* a later step begins, and the call's one report is not followed by
\* another.
C18_StepsInOrderAndFailureStopsLaterSteps ==
    /\ []StepsInOrder
    /\ [][StepsApart]_vars

C18_Witness ==
    \E i \in CreateCalls :
        /\ calls[i].pc = "done"
        /\ calls[i].res = "provider"
        /\ calls[i].stage = "subscribe"
        /\ calls[i].filter = FilterOne
        /\ calls[i].topicNames = <<NameA, NameB>>
        /\ Len(subs) = 1
        /\ filterPolicies = [a \in {} |-> <<>>]

(***************************************************************************)
(* Claims about the operations on an array of names (SpecBatch)            *)
(***************************************************************************)
TopicBatches ==
    {i \in CallIds : calls[i].op \in {"createTopics", "deleteTopics"}}

\* Without a non-empty array the call reports an error and begins nothing;
\* with one, the operation was begun for every name when the call was made,
\* the call goes on while no item has failed, and it has reported the error
\* of an item that failed, or success with every item done.
BatchBegunForEveryName ==
    \A i \in TopicBatches :
        LET c == calls[i]
        IN  IF c.stage # "array" \/ c.topicNames = <<>>
            THEN c.pc = "done" /\ c.res = "noarray" /\ c.items = <<>>
            ELSE /\ Len(c.items) = Len(c.topicNames)
                 /\ \A k \in ItemsOf(c) :
                       /\ c.items[k].topicName = c.topicNames[k]
                       /\ c.items[k].pc # "waiting"
                 /\ c.pc = "running" =>
                       \A k \in ItemsOf(c) :
                          c.items[k].pc = "done" => c.items[k].res = "ok"
                 /\ c.pc = "done" =>
                       IF c.res = "ok"
                       THEN \A k \in ItemsOf(c) :
                               /\ c.items[k].pc = "done"
                               /\ c.items[k].res = "ok"
                       ELSE \E k \in ItemsOf(c) :
                               /\ c.items[k].pc = "done"
                               /\ c.items[k].res = c.res

\* A call that has called back does not call back again, and the error a
\* call reports is the error of the item that failed in that step.
BatchCallsBackOnce ==
    \A i \in CallIds :
        /\ (i \in TopicBatches /\ calls[i].pc = "done") =>
              \/ calls'[i] = IdleCall
              \/ /\ calls'[i].pc = "done"
                 /\ calls'[i].res = calls[i].res
        /\ (/\ i \in TopicBatches
            /\ calls[i].pc = "running"
            /\ calls'[i].pc = "done"
            /\ calls'[i].res # "ok") =>
              \E k \in ItemsOf(calls[i]) :
                 /\ calls[i].items[k].pc # "done"
                 /\ calls'[i].items[k].pc = "done"
                 /\ calls'[i].items[k].res = calls'[i].res

\* C24: createTopics and deleteTopics with a non-empty array begin the
\* operation for every name in the turn of the call and call back once, with
\* the error of the first item that fails or, when every item is done, with
\* success; items under way go on after the error.  With no array, no
\* array at all or an empty one they report an error and send no request.
C24_TopicBatchesFanOutAndCallBackOnce ==
    /\ []BatchBegunForEveryName
    /\ [][BatchCallsBackOnce]_vars

C24_Witness ==
    \E i \in TopicBatches :
        /\ calls[i].op = "createTopics"
        /\ calls[i].topicNames = <<NameA, NameB>>
        /\ calls[i].pc = "done"
        /\ calls[i].res = "provider"
        /\ calls[i].items[1].res = "provider"
        /\ calls[i].items[2].res = "ok"
        /\ TopicArnOf(QualifiedTopicName(ENV, NameB)) \in topics

\* C25: createQueues and deleteQueues with a non-empty array come to call
\* the caller's callback (nothing is thrown in their place).
C25_QueueBatchesCallBack ==
    \A i \in CallIds :
        (/\ calls[i].op \in {"createQueues", "deleteQueues"}
         /\ IsNonEmptyArray(<<calls[i].stage, calls[i].topicNames>>)
         /\ calls[i].pc = "done") => calls[i].res # "thrown"

ServiceCalls == {i \in CallIds : calls[i].op = "createServiceTopics"}

\* The names the suffixes of the list stand for.
NamesOfSuffixes(suffixes) ==
    {IF suffixes[n] = <<>> \/ Trim(suffixes[n]) = <<>> THEN ServiceName
     ELSE ServiceName \o <<"-">> \o suffixes[n] : n \in 1..Len(suffixes)}

\* C26: of a call of createServiceTopics at most one createTopic is under
\* way; a topic is begun only with every topic before it in the list
\* created, so none after an error; the topics are those the suffixes name
\* (the service name itself for an empty suffix), each once; the call
\* reports the error of the topic that failed, or success with all of them
\* done, and success with nothing begun for an empty list.
C26_ServiceTopicsOneAtATime ==
    \A i \in ServiceCalls :
        LET c == calls[i]
        IN  /\ Cardinality({k \in ItemsOf(c) :
                   c.items[k].pc \notin {"waiting", "done"}}) <= 1
            /\ \A k \in ItemsOf(c) :
                  c.items[k].pc # "waiting" =>
                     \A j \in 1..(k - 1) :
                        c.items[j].pc = "done" /\ c.items[j].res = "ok"
            /\ \A j, k \in ItemsOf(c) :
                  j # k => c.items[j].topicName # c.items[k].topicName
            /\ {c.items[k].topicName : k \in ItemsOf(c)}
                  = NamesOfSuffixes(c.topicNames)
            /\ c.topicNames = <<>> =>
                  c.pc = "done" /\ c.res = "ok" /\ c.items = <<>>
            /\ c.pc = "done" =>
                  IF c.res = "ok"
                  THEN \A k \in ItemsOf(c) :
                          c.items[k].pc = "done" /\ c.items[k].res = "ok"
                  ELSE \E k \in ItemsOf(c) :
                          /\ c.items[k].pc = "done"
                          /\ c.items[k].res = c.res
                          /\ \A j \in ItemsOf(c) :
                                j > k => c.items[j].pc = "waiting"

C26_Witness ==
    \E i \in ServiceCalls :
        /\ calls[i].topicNames = << <<>>, <<"x">> >>
        /\ calls[i].pc = "done"
        /\ calls[i].res = "provider"
        /\ calls[i].items[1].topicName = ServiceName
        /\ calls[i].items[1].res = "provider"
        /\ calls[i].items[2].pc = "waiting"
        /\ topics = {TopicArnOf(QualifiedTopicName(ENV, NameA))}

(***************************************************************************)
(* Claims about events (SpecEvent)                                         *)
(***************************************************************************)
EventCalls == {i \in CallIds : calls[i].op \in EventOps}

\* C21: a failure on a publish path that takes no callback (an invalid topic
\* name, a failed look-up of the ARN, a failed publish request, a failed
\* insert into the event store) is passed to no caller: it is logged, once,
\* with the topic name, and a call that succeeds logs nothing.
C21_PublishFailuresAreOnlyLogged ==
    /\ passed = {}
    /\ \A i \in EventCalls :
          calls[i].pc = "done" =>
             logged = IF calls[i].res = "ok" THEN {}
                      ELSE {<<calls[i].topicName, calls[i].res>>}

C21_Witness ==
    \E i \in EventCalls :
        /\ calls[i].op = "publishEventToServiceTopic"
        /\ calls[i].pc = "done"
        /\ calls[i].res = "db"
        /\ calls[i].topicName = ServiceName
        /\ <<calls[i].arn, calls[i].message>> \in published
        /\ logged = {<<ServiceName, "db">>}

\* The attribute the result holds under key, or NoAttribute.
AttributeOf(attributes, key) ==
    IF \E i \in 1..Len(attributes) : attributes[i][1] = key
    THEN attributes[CHOOSE i \in 1..Len(attributes) :
                       attributes[i][1] = key][2]
    ELSE NoAttribute

\* C27: of a converted event every top-level property whose value is a
\* string (other than the empty one) has the attribute of DataType String
\* with that string, and every property whose value is a number n the
\* attribute of DataType Number with the text of n.
C27_StringsAndNumbersAreMapped ==
    messageAttributes # NotConverted =>
        \A i \in 1..Len(event) :
            LET val  == event[i][2]
                attr == AttributeOf(messageAttributes, event[i][1])
            IN  /\ (IsString(val) /\ val[3] # <<>>) =>
                      attr = <<"String", val[3]>>
                /\ IsNumber(val) =>
                      attr = <<"Number", NumberToString(val[2])>>

\* C28: of a converted event every top-level property whose value is
\* undefined or the empty string has the attribute of DataType String with
\* the text "[value is undefined]".
C28_UndefinedAndEmptyGetTheFiller ==
    messageAttributes # NotConverted =>
        \A i \in 1..Len(event) :
            (IsUndefined(event[i][2]) \/ IsEmptyString(event[i][2])) =>
                AttributeOf(messageAttributes, event[i][1])
                    = <<"String", VALUE_IS_UNDEFINED>>

\* C29: the result of a conversion has no attribute for a property whose
\* value is an object, nor for one whose value is of another type that is
\* neither string nor number (a boolean, null), and every key of the result
\* is a key of the event.
C29_OnlyStringsAndNumbersGetAnAttribute ==
    messageAttributes # NotConverted =>
        /\ \A i \in 1..Len(event) :
              (IsObject(event[i][2])
                  \/ event[i][2][1] \in {"boolean", "null"}) =>
                 AttributeOf(messageAttributes, event[i][1]) = NoAttribute
        /\ \A j \in 1..Len(messageAttributes) :
              \E i \in 1..Len(event) :
                 event[i][1] = messageAttributes[j][1]

(***************************************************************************)
(* Claims about qualified names (SpecName)                                 *)
(***************************************************************************)
\* The environment names and the service names a process can resolve.
ResolvedEnvironments ==
    (EnvironmentNames \ {<<>>})
        \cup {EnvironmentOfHost(h) : h \in Hosts \ {<<>>}}

ResolvedServices == {GetServiceName(<<>>, raw) : raw \in ServiceNames}

\* Every name returned is the environment name, '_' and the topic name,
\* for a queue followed by '_', the service name, '_' and the queue name.
NamesAreOfTheFormat ==
    \A x \in named :
        x[3] = IF x[2] = <<>>
               THEN environmentName \o <<"_">> \o x[1]
               ELSE environmentName \o <<"_">> \o x[1] \o <<"_">>
                       \o serviceName \o <<"_">> \o x[2]

\* Two names returned for the same topic and queue are the same string, and
\* two returned for topics or queues that differ in one are not.
NamesAreReproducible ==
    \A x, y \in named :
        /\ (x[1] = y[1] /\ x[2] = y[2]) => x[3] = y[3]
        /\ (/\ (x[2] = <<>>) = (y[2] = <<>>)
            /\ (x[1] # y[1]) # (x[2] # y[2])) => x[3] # y[3]

\* With the other three the same, another environment name, service name,
\* topic name or queue name gives another qualified name.
OneChangeChangesTheName ==
    \A e \in ResolvedEnvironments, sv \in ResolvedServices,
       t \in {NameA, NameB}, q \in {NameQ, NameR} :
        LET name == QualifiedQueueNameOf(e, sv, t, q)
        IN  /\ \A e2 \in ResolvedEnvironments \ {e} :
                  /\ QualifiedQueueNameOf(e2, sv, t, q) # name
                  /\ QualifiedTopicName(e2, t) # QualifiedTopicName(e, t)
            /\ \A s2 \in ResolvedServices \ {sv} :
                  QualifiedQueueNameOf(e, s2, t, q) # name
            /\ \A t2 \in {NameA, NameB} \ {t} :
                  /\ QualifiedQueueNameOf(e, sv, t2, q) # name
                  /\ QualifiedTopicName(e, t2) # QualifiedTopicName(e, t)
            /\ \A q2 \in {NameQ, NameR} \ {q} :
                  QualifiedQueueNameOf(e, sv, t, q2) # name

\* C30: within a process getQualifiedTopicName(t) returns the environment
\* name, '_' and t, and getQualifiedQueueName(t, q) that, '_', the service
\* name, '_' and q; calls with the same names return the same string,
\* whether they were answered by the first look-up of the environment name
\* or after it; and another environment name, service name, topic name or
\* queue name, the rest the same, gives another string.
C30_QualifiedNamesAreReproducible ==
    /\ NamesAreOfTheFormat
    /\ NamesAreReproducible
    /\ named # {} => OneChangeChangesTheName

C30_Witness ==
    /\ deployment[2] = Chars(ServiceNameMax + 2)
    /\ \E x, y \in named :
          /\ x[1] = NameA /\ x[2] = NameQ /\ x[4]
          /\ y[1] = NameA /\ y[2] = NameQ /\ ~y[4]
    /\ \E z \in named : z[1] = NameA /\ z[2] = NameR
    /\ \E z \in named : z[1] = NameB /\ z[2] = <<>>

\* The first n characters of str, or str when it has no more.
FirstChars(str, n) == IF Len(str) > n THEN SubSeq(str, 1, n) ELSE str

\* The name a host stands for: its text before the first dot.
HostLabel(host) ==
    IF IndexOf(host, <<".">>) > 0
    THEN SubSeq(host, 1, IndexOf(host, <<".">>))
    ELSE host

\* C31: an environment name taken from the remote configuration is its
\* first 12 characters when it is longer than 12 and is unchanged else; the
\* service name is the first 24 characters of SERVICE_NAME when that is
\* longer than 24, SERVICE_NAME unchanged else, and the placeholder when
\* SERVICE_NAME is unset.
C31_NamesAreCutToTheLimit ==
    /\ (environmentName # Unset /\ deployment[1] = <<>>) =>
          environmentName =
             FirstChars(HostLabel(deployment[3]), EnvironmentNameMax)
    /\ serviceName # <<>> =>
          serviceName =
             FirstChars(IF deployment[2] = <<>> THEN SERVICE_NAME_UNKNOWN
                        ELSE deployment[2], ServiceNameMax)

(***************************************************************************)
(* Claims about functions of their arguments alone (SpecPure)              *)
(***************************************************************************)
\* The input is a string of 1 to n characters, each a letter, a digit, '_'
\* or '-'.
IsNameOfAtMost(value, n) ==
    /\ value[1] = "string"
    /\ Len(value[3]) \in 1..n
    /\ \A i \in 1..Len(value[3]) :
          \/ value[3][i] \in Lower \cup Upper \cup Digit
          \/ value[3][i] \in {"_", "-"}

\* C32: isValidTopicName is true of exactly the strings of 1 to 24
\* characters of the class [A-Za-z0-9_-] and isValidQueueName of those of 1
\* to 80: each is false of an absent or empty input, of a longer one and of
\* one with another character, a newline at the end included.
C32_ValidNamesAreExactlyTheNamesOfTheClass ==
    /\ output[1] = "isValidTopicName" =>
          output[2] = IsNameOfAtMost(input, 24)
    /\ output[1] = "isValidQueueName" =>
          output[2] = IsNameOfAtMost(input, 80)

C32_Witness ==
    /\ input = String(Fill(24, "a") \o <<"\n">>)
    /\ output = <<"isValidQueueName", FALSE>>

\* C36: in one environment and service, two different pairs of a valid
\* qualifying topic name and a valid queue name never get the same
\* qualified queue name.
C36_DifferentPairsGetDifferentNames ==
    (/\ output[1] = "getQualifiedQueueName"
     /\ output[2][1] = "ok"
     /\ output[3][1] = "ok"
     /\ input[2] # input[3]) => output[2][2] # output[3][2]

====
